---- MODULE Spec2Model ----
(***************************************************************************)
(* A model of the web snapshot serializer / deserializer of                *)
(* src/src/web-snapshot/web-snapshot.cc.                                   *)
(*                                                                         *)
(* The byte buffer is a sequence of tokens: one token per uint32, per      *)
(* zigzag integer, per double and per length-prefixed string (the token is *)
(* the string's content).  Ids are 0-based as in the code; sequences are   *)
(* 1-based, so table entry id is stored at index id + 1.                   *)
(*                                                                         *)
(* The explicit management of cppgc objects                                *)
(* (src/src/heap/cppgc/explicit-management.cc) is modelled on a heap of    *)
(* its own, held in cppgc.                                                 *)
(***************************************************************************)
EXTENDS Integers, Sequences, FiniteSets, TLC

VARIABLES
  ser,                \* the fields of the WebSnapshotSerializer instance
  buffer,             \* the snapshot, as handed to WebSnapshotDeserializer
  mutation,           \* how buffer differs from what the serializer wrote
  des,                \* the fields of the WebSnapshotDeserializer instance
  pc,                 \* where TakeSnapshot() or Deserialize() stands
  heap_loc,           \* current address of each backing store (what a handle yields)
  gc_count,           \* collections so far
  global_dictionary,  \* the bindings of the global object
  cppgc               \* the cppgc heap and the last call made on it

vars ==
  <<ser, buffer, mutation, des, pc, heap_loc, gc_count, global_dictionary, cppgc>>

(***************************************************************************)
(* Wire constants.                                                         *)
(***************************************************************************)
kMagicNumber == 77
\* The item ceiling and the descriptor ceiling, scaled down.
kMaxItemCount == 6
kMaxNumberOfDescriptors == 4

\* enum ValueType
FALSE_CONSTANT == 0
TRUE_CONSTANT == 1
NULL_CONSTANT == 2
UNDEFINED_CONSTANT == 3
INTEGER == 4
DOUBLE == 5
REGEXP == 6
STRING_ID == 7
ARRAY_ID == 8
OBJECT_ID == 9
FUNCTION_ID == 10
CLASS_ID == 11

\* enum ContextType, enum PropertyAttributesType
FUNCTION == 0
BLOCK == 1
DEFAULT == 0
CUSTOM == 1

NoError == "none"

Tables == {"strings", "maps", "contexts", "functions", "classes", "arrays",
           "objects", "shared_function_infos"}

(***************************************************************************)
(* Heap values as the deserializer builds them: <<tag, payload>>.          *)
(***************************************************************************)
SmiZero == <<"number", 0>>
UndefinedValue == <<"undefined", 0>>
EmptyString == <<"string", 0>>
NullHandle == <<"null", 0>>
NoPrototype == <<"none", 0>>
ObjectPrototype == <<"Object.prototype", 0>>

UnsetString == [set |-> FALSE, content |-> 0, internalized |-> FALSE]
UnsetMap == [set |-> FALSE, empty |-> FALSE, props |-> <<>>, proto |-> NoPrototype,
             ctor |-> NoPrototype, is_prototype_map |-> FALSE]
UnsetContext == [set |-> FALSE, type |-> 0, parent |-> 0, names |-> <<>>, slots |-> <<>>]
UnsetFunction == [set |-> FALSE, context |-> 0, start |-> 0, length |-> 0,
                  params |-> 0, kind |-> "kInvalid", prototype |-> NoPrototype]
UnsetArray == [set |-> FALSE, elements |-> <<>>]
UnsetObject == [set |-> FALSE, map |-> 0, props |-> <<>>]

NewFixedArray(n, unset) == [k \in 1..n |-> unset]

(***************************************************************************)
(* Bit fields of the function flags and of the property flags.  The bits   *)
(* of the function flags are, from bit 0: async, generator, arrow, method, *)
(* static, class constructor, default constructor, derived constructor.    *)
(***************************************************************************)
Bit(flags, k) == (flags \div (2 ^ k)) % 2

IsFunctionOrMethod(flags) == flags < 32

IsConstructor(flags) ==
  Bit(flags, 5) = 1 /\ flags % 32 = 0 /\ flags < 256

kFunctionKinds ==
  << "kNormalFunction", "kAsyncFunction", "kGeneratorFunction",
     "kAsyncGeneratorFunction",
     "kArrowFunction", "kAsyncArrowFunction", "kInvalid", "kInvalid",
     "kConciseMethod", "kAsyncConciseMethod", "kInvalid", "kInvalid",
     "kInvalid", "kInvalid", "kInvalid", "kInvalid" >>

kConstructorKinds ==
  << "kBaseConstructor", "kDefaultBaseConstructor", "kDerivedConstructor",
     "kDefaultDerivedConstructor" >>

\* The kind the flags decode to; "kInvalid" is reported by the caller's Throw.
FunctionFlagsToFunctionKind(flags) ==
  IF IsFunctionOrMethod(flags)
  THEN IF Bit(flags, 2) = 1 /\ Bit(flags, 3) = 1
       THEN "kInvalid"
       ELSE kFunctionKinds[1 + Bit(flags, 0)
                             + 2 * Bit(flags, 1)
                             + 4 * (IF Bit(flags, 2) = 1 \/ Bit(flags, 4) = 1 THEN 1 ELSE 0)
                             + 8 * Bit(flags, 3)]
  ELSE IF IsConstructor(flags)
       THEN kConstructorKinds[1 + (flags \div 64)]
       ELSE "kInvalid"

GetDefaultAttributeFlags == 6

\* READ_ONLY = 1, DONT_ENUM = 2, DONT_DELETE = 4
FlagsToAttributes(flags) ==
  Bit(flags, 0) * 1 + (1 - Bit(flags, 1)) * 4 + (1 - Bit(flags, 2)) * 2

(***************************************************************************)
(* The deserializer instance after construction (lines 1043-1059).         *)
(* raw[t] is the cached raw reference of table t; ok and ret carry the      *)
(* results of the calls; returned says the running handler returned.       *)
(* stale_use, oob, bad_cast, allocs, dictionary_in_place, fwd_log and      *)
(* ref_log observe what the code does and are never read by it.            *)
(***************************************************************************)
NewDeserializer ==
  [ position_ |-> 1,
    error_message_ |-> NoError,
    deserialized_ |-> FALSE,
    string_count_ |-> 0, map_count_ |-> 0, context_count_ |-> 0,
    function_count_ |-> 0, class_count_ |-> 0, array_count_ |-> 0,
    object_count_ |-> 0,
    current_function_count_ |-> 0, current_class_count_ |-> 0,
    current_array_count_ |-> 0, current_object_count_ |-> 0,
    strings_ |-> <<>>, maps_ |-> <<>>, contexts_ |-> <<>>, functions_ |-> <<>>,
    classes_ |-> <<>>, arrays_ |-> <<>>, objects_ |-> <<>>,
    shared_function_infos_ |-> <<>>,
    empty_map_is_prototype_map |-> FALSE,
    deferred_references_ |-> <<>>,
    raw |-> [t \in Tables |-> 0],
    i |-> 0,
    shared_function_info_index |-> 0,
    export_count |-> 0,
    dictionary |-> <<>>,
    dictionary_in_place |-> FALSE,
    script_run |-> FALSE,
    result |-> "none",
    calls |-> 0,
    ok |-> TRUE, ret |-> UndefinedValue, returned |-> FALSE,
    names |-> <<>>, acc |-> <<>>, fn |-> <<>>,
    stale_use |-> {}, oob |-> {}, bad_cast |-> FALSE, allocs |-> {},
    fwd_log |-> {}, ref_log |-> {} ]

End == Len(buffer) + 1

has_error(d) == d.error_message_ # NoError

\* A Throw that records the message of the latest report.
BaseThrowLatest(d, message) == [d EXCEPT !.error_message_ = message]

\* WebSnapshotSerializerDeserializer::Throw: the first message is kept.
BaseThrow(d, message) ==
  IF d.error_message_ # NoError THEN d
  ELSE [d EXCEPT !.error_message_ = message]

\* WebSnapshotDeserializer::Throw
Throw(d, message) ==
  BaseThrow([d EXCEPT !.string_count_ = 0, !.map_count_ = 0,
                      !.context_count_ = 0, !.class_count_ = 0,
                      !.function_count_ = 0, !.object_count_ = 0,
                      !.deferred_references_ = <<>>,
                      !.position_ = End],
            message)

Ret(d, value) == [d EXCEPT !.ret = value]

Returned(d) == [d EXCEPT !.returned = TRUE]

\* ValueDeserializer::ReadUint32 / ReadZigZag / ReadDouble / ReadUtf8String
\* take one token each and fail at the end of the buffer.  CanRead(d, n): the
\* next n reads succeed; Token(d, j): what read number j from here yields
\* (j = 0 is the next one); Consume(d, n): the position after n reads.
CanRead(d, n) == d.position_ + n <= End

Token(d, j) == buffer[d.position_ + j]

Consume(d, n) == [d EXCEPT !.position_ = @ + n]

\* Throw has put the position at the end of the buffer, so each of the n
\* reads a loop still makes fails, throws again to no effect and yields the
\* value of the failure path.
FailingReads(d, n, entry, value) ==
  [d EXCEPT !.ret = value, !.acc = @ \o [j \in 1..n |-> entry]]

\* A use of the cached raw reference of table t at index idx.
TableAccess(d, t, idx, len) ==
  [d EXCEPT !.stale_use = IF d.raw[t] # heap_loc[t] THEN @ \cup {t} ELSE @,
            !.oob = IF idx >= len THEN @ \cup {t} ELSE @]

TableGet(table, idx, unset) ==
  IF idx + 1 \in DOMAIN table THEN table[idx + 1] ELSE unset

TableSet(table, idx, entry) ==
  IF idx + 1 \in DOMAIN table THEN [table EXCEPT ![idx + 1] = entry] ELSE table

\* Observation: a reference field naming entry id of table t was read and
\* passed the checks made at the read.
LogRef(d, t, id) == [d EXCEPT !.ref_log = @ \cup {<<t, id>>}]

\* String::cast(strings_.get(string_id)), internalized in place if asked.
GetString(d, string_id, internalize) ==
  Ret([d EXCEPT !.strings_ =
         IF internalize
         THEN TableSet(@, string_id,
                       [TableGet(@, string_id, UnsetString)
                          EXCEPT !.internalized = TRUE])
         ELSE @],
      <<"string", TableGet(d.strings_, string_id, UnsetString).content>>)

\* WebSnapshotDeserializer::ReadString
ReadString(d, internalize) ==
  IF ~CanRead(d, 1) \/ Token(d, 0) >= d.string_count_
  THEN Ret(Throw(d, "malformed string id"), EmptyString)
  ELSE GetString(TableAccess(LogRef(Consume(d, 1), "strings", Token(d, 0)),
                             "strings", Token(d, 0), Len(d.strings_)),
                 Token(d, 0), internalize)

DeferredMessage(target_type) ==
  CASE target_type = ARRAY_ID -> "Invalid array reference"
    [] target_type = OBJECT_ID -> "Invalid object reference"
    [] target_type = CLASS_ID -> "Invalid class reference"
    [] target_type = FUNCTION_ID -> "Invalid function reference"
    [] OTHER -> "Invalid reference"

\* Observation: a reference of type target_type to target_index, not yet
\* deserialized, was read into slot index of container, and was or was not
\* deferred.
Log(d, container, index, target_type, target_index, deferred) ==
  [d EXCEPT !.fwd_log = @ \cup {[from |-> container[1], at |-> container[2],
                                  index |-> index, type |-> target_type,
                                  id |-> target_index, deferred |-> deferred]}]

\* WebSnapshotDeserializer::AddDeferredReference
AddDeferredReference(d, container, index, target_type, target_index) ==
  IF container = NullHandle
  THEN Ret(Throw(Log(d, container, index, target_type, target_index, FALSE),
                 DeferredMessage(target_type)),
           UndefinedValue)
  ELSE Ret([Log(d, container, index, target_type, target_index, TRUE)
              EXCEPT !.deferred_references_ =
                Append(@, [container |-> container, index |-> index,
                           target_type |-> target_type,
                           target_index |-> target_index])],
           UndefinedValue)

\* JSRegExp::FlagsFromString: the flags string is one of the known flag sets.
IsValidRegExpFlags(content) == content < 2

\* The id range check of ReadValue for a reference of type target_type.
IdRejected(d, target_type, id) ==
  CASE target_type = ARRAY_ID -> id >= kMaxItemCount
    [] target_type = OBJECT_ID -> id > kMaxItemCount
    [] target_type = FUNCTION_ID -> id >= d.function_count_
    [] OTHER -> id >= kMaxItemCount

IdMessage(target_type) ==
  IF target_type \in {ARRAY_ID, OBJECT_ID} THEN "Malformed variable"
  ELSE "Malformed object property"

\* How many items of the type have been deserialized so far.
CurrentCount(d, target_type) ==
  CASE target_type = FUNCTION_ID -> d.current_function_count_
    [] target_type = CLASS_ID -> d.current_class_count_
    [] target_type = ARRAY_ID -> d.current_array_count_
    [] OTHER -> d.current_object_count_

\* The bound of ProcessDeferredReferences (lines 2059-2090) for a target type.
DeferredLimit(d, target_type) ==
  CASE target_type = FUNCTION_ID -> d.function_count_
    [] target_type = CLASS_ID -> d.class_count_
    [] target_type = ARRAY_ID -> d.array_count_
    [] OTHER -> d.object_count_

DeferredTable(target_type) ==
  CASE target_type = FUNCTION_ID -> "functions"
    [] target_type = CLASS_ID -> "classes"
    [] target_type = ARRAY_ID -> "arrays"
    [] OTHER -> "objects"

DeferredTableLen(d, target_type) ==
  CASE target_type = FUNCTION_ID -> Len(d.functions_)
    [] target_type = CLASS_ID -> Len(d.classes_)
    [] target_type = ARRAY_ID -> Len(d.arrays_)
    [] OTHER -> Len(d.objects_)

\* functions_.get(target_index) and its siblings.
DeferredTarget(d, target_type, target_index) ==
  CASE target_type = FUNCTION_ID ->
         IF TableGet(d.functions_, target_index, UnsetFunction).set
         THEN <<"function", target_index>> ELSE UndefinedValue
    [] target_type = CLASS_ID ->
         IF TableGet(d.classes_, target_index, UnsetFunction).set
         THEN <<"class", target_index>> ELSE UndefinedValue
    [] target_type = ARRAY_ID ->
         IF TableGet(d.arrays_, target_index, UnsetArray).set
         THEN <<"array", target_index>> ELSE UndefinedValue
    [] OTHER ->
         IF TableGet(d.objects_, target_index, UnsetObject).set
         THEN <<"object", target_index>> ELSE UndefinedValue

\* The ARRAY_ID, OBJECT_ID, FUNCTION_ID and CLASS_ID cases of ReadValue, the
\* type tag already read.
ReadReference(d, container, index, target_type) ==
  IF ~CanRead(d, 1) THEN Ret(Throw(d, IdMessage(target_type)), SmiZero)
  ELSE IF IdRejected(d, target_type, Token(d, 0))
  THEN Ret(Throw(Log(d, container, index, target_type, Token(d, 0), FALSE),
                 IdMessage(target_type)),
           SmiZero)
  ELSE IF Token(d, 0) < CurrentCount(d, target_type)
  THEN Ret(TableAccess(LogRef(Consume(d, 1), DeferredTable(target_type),
                              Token(d, 0)),
                       DeferredTable(target_type), Token(d, 0),
                       DeferredTableLen(d, target_type)),
           DeferredTarget(d, target_type, Token(d, 0)))
  ELSE AddDeferredReference(LogRef(Consume(d, 1), DeferredTable(target_type),
                                   Token(d, 0)),
                            container, index, target_type, Token(d, 0))

\* The REGEXP case from the flags string on; p has read the pattern.
ReadRegExpFlags(f, pattern) ==
  IF ~IsValidRegExpFlags(f.ret[2])
  THEN Ret(Throw(f, "Malformed flags in regular expression"), SmiZero)
  ELSE Ret(f, <<"regexp", pattern, f.ret[2]>>)

ReadRegExp(p) == ReadRegExpFlags(ReadString(p, FALSE), p.ret[2])

\* ReadZigZag / ReadDouble and the number made of it.
ReadNumber(d, kind, message) ==
  IF ~CanRead(d, 1) THEN Ret(Throw(d, message), SmiZero)
  ELSE Ret(Consume(d, 1), <<kind, Token(d, 0)>>)

\* The switch of ReadValue, the type tag already read.
ReadTagged(d, value_type, container, index) ==
  CASE value_type = FALSE_CONSTANT -> Ret(d, <<"false", 0>>)
    [] value_type = TRUE_CONSTANT -> Ret(d, <<"true", 0>>)
    [] value_type = NULL_CONSTANT -> Ret(d, <<"null_value", 0>>)
    [] value_type = UNDEFINED_CONSTANT -> Ret(d, UndefinedValue)
    [] value_type = INTEGER -> ReadNumber(d, "number", "Malformed integer")
    [] value_type = DOUBLE -> ReadNumber(d, "double", "Malformed double")
    [] value_type = STRING_ID -> ReadString(d, FALSE)
    [] value_type \in {ARRAY_ID, OBJECT_ID, FUNCTION_ID, CLASS_ID} ->
         ReadReference(d, container, index, value_type)
    [] value_type = REGEXP -> ReadRegExp(ReadString(d, FALSE))
    [] OTHER -> Ret(Throw(d, "Unsupported value type"), SmiZero)

\* WebSnapshotDeserializer::ReadValue
ReadValue(d, container, index) ==
  IF ~CanRead(d, 1) THEN Ret(Throw(d, "Malformed variable"), SmiZero)
  ELSE ReadTagged(Consume(d, 1), Token(d, 0), container, index)

\* factory()->NewFixedArray(count) into the handle and the raw field of table t.
Allocate(d, t, count) ==
  [d EXCEPT !.raw[t] = heap_loc[t], !.allocs = @ \cup {<<t, count>>}]

\* The check on the count of a table (all tables but the array table).
CountRejected(d) == ~CanRead(d, 1) \/ Token(d, 0) > kMaxItemCount

(***************************************************************************)
(* DeserializeStrings: the count and the allocation, then one record per   *)
(* step.                                                                   *)
(***************************************************************************)
DeserializeStringsHeader(d) ==
  IF CountRejected(d) THEN Returned(Throw(d, "Malformed string table"))
  ELSE [Allocate(Consume(d, 1), "strings", Token(d, 0))
          EXCEPT !.string_count_ = Token(d, 0),
                 !.strings_ = NewFixedArray(Token(d, 0), UnsetString),
                 !.i = 0]

DeserializeStringsRecord(d) ==
  IF ~CanRead(d, 1) THEN Returned(Throw(d, "Malformed string"))
  ELSE [TableAccess(Consume(d, 1), "strings", d.i, Len(d.strings_))
          EXCEPT !.strings_ = TableSet(@, d.i, [set |-> TRUE,
                                                content |-> Token(d, 0),
                                                internalized |-> FALSE]),
                 !.i = @ + 1]

(***************************************************************************)
(* DeserializeMaps.                                                        *)
(***************************************************************************)
DeserializeMapsHeader(d) ==
  IF CountRejected(d) THEN Returned(Throw(d, "Malformed shape table"))
  ELSE [Allocate(Consume(d, 1), "maps", Token(d, 0))
          EXCEPT !.map_count_ = Token(d, 0),
                 !.maps_ = NewFixedArray(Token(d, 0), UnsetMap), !.i = 0]

AddDescriptor(k, attributes) ==
  [k EXCEPT !.acc = Append(@, <<k.ret[2], attributes>>)]

\* Observation: a prototype field read; 0 names no object.
LogPrototype(d, prototype_id) ==
  IF prototype_id = 0 THEN d ELSE LogRef(d, "objects", prototype_id - 1)

\* Observation: a context field read; 0 names no context.
LogContext(d, context_id) ==
  IF context_id = 0 THEN d ELSE LogRef(d, "contexts", context_id - 1)

\* The descriptor loop of lines 1326-1344: n properties left to read.
RECURSIVE ReadDescriptors(_, _, _)
ReadDescriptors(d, n, has_custom_property_attributes) ==
  IF n = 0 THEN d
  ELSE IF has_custom_property_attributes
  THEN IF ~CanRead(d, 1) THEN Returned(Throw(d, "Malformed shape"))
       ELSE ReadDescriptors(
              AddDescriptor(ReadString(Consume(d, 1), TRUE),
                            FlagsToAttributes(Token(d, 0))),
              n - 1, has_custom_property_attributes)
  ELSE ReadDescriptors(AddDescriptor(ReadString(d, TRUE), 0),
                       n - 1, has_custom_property_attributes)

\* Lines 1353-1368: the prototype of the new map, resolved or deferred.
MapPrototype(d, prototype_id) ==
  IF prototype_id = 0 THEN Ret(d, ObjectPrototype)
  ELSE IF prototype_id - 1 < d.current_object_count_
  THEN Ret(TableAccess(d, "objects", prototype_id - 1, Len(d.objects_)),
           <<"object", prototype_id - 1>>)
  ELSE Ret(AddDeferredReference(d, <<"map", d.i>>, 0, OBJECT_ID, prototype_id - 1),
           NoPrototype)

\* What lines 1315-1321 do with a shape of no properties.
EmptyShape(d) ==
  Returned([TableAccess(d, "maps", d.i, Len(d.maps_))
              EXCEPT !.maps_ = TableSet(@, d.i, [UnsetMap EXCEPT !.set = TRUE,
                                                              !.empty = TRUE,
                                                              !.proto = ObjectPrototype])])

\* maps_.set(i, *map) and the loop increment.
SetMap(m) ==
  [TableAccess(m, "maps", m.i, Len(m.maps_))
     EXCEPT !.maps_ = TableSet(@, m.i, [UnsetMap EXCEPT !.set = TRUE,
                                                     !.props = m.acc,
                                                     !.proto = m.ret]),
            !.i = @ + 1]

\* Lines 1346-1369, after the descriptor loop.
CreateMap(k, prototype_id) ==
  IF k.returned THEN k ELSE SetMap(MapPrototype(k, prototype_id))

DeserializeMapsRecord(d) ==
  IF ~CanRead(d, 1) THEN Returned(Throw(d, "Malformed shape"))
  ELSE IF Token(d, 0) \notin {DEFAULT, CUSTOM}
  THEN Returned(Throw(d, "Unsupported map type"))
  ELSE IF ~CanRead(d, 2) \/ Token(d, 1) > kMaxItemCount
  THEN Returned(Throw(d, "Malformed shape"))
  ELSE IF ~CanRead(d, 3) THEN Returned(Throw(d, "Malformed shape"))
  ELSE IF Token(d, 2) > kMaxNumberOfDescriptors
  THEN Returned(Throw(d, "Malformed shape: too many properties"))
  ELSE IF Token(d, 2) = 0
  THEN EmptyShape(LogPrototype(Consume(d, 3), Token(d, 1)))
  ELSE CreateMap(ReadDescriptors([LogPrototype(Consume(d, 3), Token(d, 1))
                                    EXCEPT !.acc = <<>>],
                                 Token(d, 2), Token(d, 0) = CUSTOM),
                 Token(d, 1))

(***************************************************************************)
(* DeserializeContexts.                                                    *)
(***************************************************************************)
DeserializeContextsHeader(d) ==
  IF CountRejected(d) THEN Returned(Throw(d, "Malformed context table"))
  ELSE [Allocate(Consume(d, 1), "contexts", Token(d, 0))
          EXCEPT !.context_count_ = Token(d, 0),
                 !.contexts_ = NewFixedArray(Token(d, 0), UnsetContext),
                 !.i = 0]

AddName(k) == [k EXCEPT !.names = Append(@, k.ret[2])]

\* Lines 1419-1438: the names of n more variables.
RECURSIVE ReadContextNames(_, _)
ReadContextNames(d, n) ==
  IF n = 0 THEN d
  ELSE IF has_error(d)
  THEN [d EXCEPT !.names = @ \o [j \in 1..n |-> EmptyString[2]]]
  ELSE ReadContextNames(AddName(ReadString(d, TRUE)), n - 1)

AddValue(v) == [v EXCEPT !.acc = Append(@, v.ret)]

\* The values of a record, read into acc: slots index .. count - 1 of
\* container (lines 1457-1462, 1776-1780, 1716-1733).
RECURSIVE ReadValues(_, _, _, _)
ReadValues(d, container, index, count) ==
  IF index >= count THEN d
  ELSE IF has_error(d) THEN FailingReads(d, count - index, SmiZero, SmiZero)
  ELSE ReadValues(AddValue(ReadValue(d, container, index)),
                  container, index + 1, count)

\* A parent check that lets a context name itself as its parent.
ParentContextRejectedAboveSelf(parent_context_id, i) == parent_context_id > i + 1

\* The parent check of lines 1392-1396.
ParentContextRejected(parent_context_id, i) == parent_context_id > i

\* CreateScopeInfo reports an unknown context type and carries on.
CreateScopeInfo(d, context_type) ==
  IF context_type \in {FUNCTION, BLOCK} THEN d
  ELSE Throw(d, "Unsupported context type")

\* contexts_.get(parent_context_id - 1) of line 1409.
ParentContext(d, parent_context_id) ==
  IF parent_context_id > 0
  THEN TableAccess(d, "contexts", parent_context_id - 1, Len(d.contexts_))
  ELSE d

\* contexts_.set(i, *context) and the loop increment.
SetContext(v, context_type, parent_context_id) ==
  [TableAccess(v, "contexts", v.i, Len(v.contexts_))
     EXCEPT !.contexts_ = TableSet(@, v.i, [set |-> TRUE, type |-> context_type,
                                            parent |-> parent_context_id,
                                            names |-> v.names,
                                            slots |-> v.acc]),
            !.i = @ + 1]

\* Lines 1440-1463: the context is allocated and its values are read.
CreateContext(n, context_type, parent_context_id, variable_count) ==
  IF context_type \notin {FUNCTION, BLOCK}
  THEN Returned(Throw(n, "Unsupported context type"))
  ELSE SetContext(ReadValues([n EXCEPT !.acc = <<>>], <<"context", n.i>>, 0,
                             variable_count),
                  context_type, parent_context_id)

DeserializeContextsRecord(d) ==
  IF ~CanRead(d, 1) THEN Returned(Throw(d, "Malformed context type"))
  ELSE IF ~CanRead(d, 2) \/ ParentContextRejected(Token(d, 1), d.i)
  THEN Returned(Throw(d, "Malformed context"))
  ELSE IF ~CanRead(d, 3) THEN Returned(Throw(d, "Malformed context"))
  ELSE CreateContext(
         ReadContextNames(
           [ParentContext(CreateScopeInfo(LogContext(Consume(d, 3), Token(d, 1)),
                                          Token(d, 0)),
                          Token(d, 1))
              EXCEPT !.names = <<>>],
           Token(d, 2)),
         Token(d, 0), Token(d, 1), Token(d, 2))

(***************************************************************************)
(* Function prototypes.                                                    *)
(***************************************************************************)
FunctionTable(d, fref) == IF fref[1] = "class" THEN d.classes_ ELSE d.functions_

SetFunctionEntry(d, fref, entry) ==
  IF fref[1] = "class"
  THEN [d EXCEPT !.classes_ = TableSet(@, fref[2], entry)]
  ELSE [d EXCEPT !.functions_ = TableSet(@, fref[2], entry)]

PrototypeMapNeverClaimed(map) == FALSE

\* The check of lines 1996-1998 on the prototype's map.  The initial map of
\* Object, which stands for every shape of no properties, has Object as its
\* constructor.
PrototypeMapIsClaimed(map) == map.empty \/ map.ctor # NoPrototype

\* map.set_is_prototype_map(true)
MarkPrototypeMap(d, map_id, map) ==
  IF map.empty THEN [d EXCEPT !.empty_map_is_prototype_map = TRUE]
  ELSE [d EXCEPT !.maps_ = TableSet(@, map_id, [map EXCEPT !.is_prototype_map = TRUE])]

\* Lines 1999-2001.
ClaimPrototypeMap(d, fref, object_id, map_id, map) ==
  [SetFunctionEntry(
     [d EXCEPT !.maps_ = TableSet(@, map_id, [map EXCEPT !.is_prototype_map = TRUE,
                                                          !.ctor = fref])],
     fref,
     [TableGet(FunctionTable(d, fref), fref[2], UnsetFunction)
        EXCEPT !.prototype = <<"object", object_id>>])
     EXCEPT !.ok = TRUE]

\* SetFunctionPrototype with prototype.map() at hand.
SetPrototypeWithMap(d, fref, object_id, map_id, map) ==
  IF PrototypeMapIsClaimed(map)
  THEN [MarkPrototypeMap(d, map_id, map) EXCEPT !.ok = FALSE]
  ELSE ClaimPrototypeMap(d, fref, object_id, map_id, map)

\* WebSnapshotDeserializer::SetFunctionPrototype; the result is left in ok.
\* The prototype is objects_.get(object_id) cast to a JSReceiver.
SetFunctionPrototype(d, fref, object_id) ==
  IF ~TableGet(d.objects_, object_id, UnsetObject).set
  THEN [d EXCEPT !.bad_cast = TRUE, !.ok = FALSE]
  ELSE SetPrototypeWithMap(
         d, fref, object_id,
         TableGet(d.objects_, object_id, UnsetObject).map,
         TableGet(d.maps_, TableGet(d.objects_, object_id, UnsetObject).map,
                  UnsetMap))

ThrowUnlessOk(p, message) == IF ~p.ok THEN Throw(p, message) ELSE p

\* WebSnapshotDeserializer::ReadFunctionPrototype
ReadFunctionPrototype(d, fref) ==
  IF ~CanRead(d, 1) \/ Token(d, 0) > kMaxItemCount + 1
  THEN Throw(d, "Malformed class / function")
  ELSE IF Token(d, 0) = 0 THEN Consume(d, 1)
  ELSE IF Token(d, 0) - 1 < d.current_object_count_
  THEN ThrowUnlessOk(
         SetFunctionPrototype(
           TableAccess(LogPrototype(Consume(d, 1), Token(d, 0)),
                       "objects", Token(d, 0) - 1, Len(d.objects_)),
           fref, Token(d, 0) - 1),
         "Can't reuse function prototype")
  ELSE AddDeferredReference(LogPrototype(Consume(d, 1), Token(d, 0)),
                            fref, 0, OBJECT_ID, Token(d, 0) - 1)

(***************************************************************************)
(* DeserializeFunctions and DeserializeClasses.  A record is read in one   *)
(* step (up to the allocations at the head of CreateJSFunction) and the    *)
(* function is built in the next.                                          *)
(***************************************************************************)
DeserializeFunctionsHeader(d) ==
  IF CountRejected(d) THEN Returned(Throw(d, "Malformed function table"))
  ELSE [Allocate(Allocate(Consume(d, 1), "functions", Token(d, 0)),
                 "shared_function_infos", Token(d, 0) + 1)
          EXCEPT !.function_count_ = Token(d, 0),
                 !.shared_function_infos_ = NewFixedArray(Token(d, 0) + 1, 0),
                 !.functions_ = NewFixedArray(Token(d, 0), UnsetFunction)]

\* Lines 1602-1609: the script is created and given the raw array.
SetSharedFunctionInfos(d) ==
  TableAccess(d, "shared_function_infos", 0, Len(d.shared_function_infos_))

\* FunctionFlagsToFunctionKind reports flags of no kind and carries on.
ThrowIfInvalid(d, kind) ==
  IF kind = "kInvalid" THEN Throw(d, "Invalid function flags") ELSE d

\* The four fields after the source of a function or class record, and the
\* head of CreateJSFunction.
ReadFunctionFields(s, context_id, message) ==
  IF ~CanRead(s, 4) THEN Returned(Throw(s, message))
  ELSE [ThrowIfInvalid(Consume(s, 4), FunctionFlagsToFunctionKind(Token(s, 3)))
          EXCEPT !.fn = [set |-> TRUE, context |-> context_id,
                         start |-> Token(s, 0), length |-> Token(s, 1),
                         params |-> Token(s, 2),
                         kind |-> FunctionFlagsToFunctionKind(Token(s, 3)),
                         prototype |-> NoPrototype]]

\* A function or class record up to the allocations of CreateJSFunction,
\* whose first argument is evaluated before the call.
ReadFunctionRecord(d, message, shared_function_info_index) ==
  IF ~CanRead(d, 1) \/ Token(d, 0) > d.context_count_
  THEN Returned(Throw(d, message))
  ELSE ReadFunctionFields(
         ReadString([LogContext(Consume(d, 1), Token(d, 0))
                       EXCEPT !.shared_function_info_index =
                                shared_function_info_index],
                    FALSE),
         Token(d, 0), message)

DeserializeFunctionsRecord(d) ==
  ReadFunctionRecord(d, "Malformed function", d.current_function_count_ + 1)

DeserializeClassesRecord(d) ==
  ReadFunctionRecord(d, "Malformed class",
                     d.function_count_ + d.current_class_count_ + 1)

\* CreateJSFunction from shared_function_infos_.Set on (lines 1562-1581).
CreateJSFunction(d) ==
  IF d.fn.context > 0
  THEN TableAccess(TableAccess(d, "shared_function_infos",
                               d.shared_function_info_index,
                               Len(d.shared_function_infos_)),
                   "contexts", d.fn.context - 1, Len(d.contexts_))
  ELSE TableAccess(d, "shared_function_infos", d.shared_function_info_index,
                   Len(d.shared_function_infos_))

SetFunction(f) ==
  [TableAccess(f, "functions", f.current_function_count_, Len(f.functions_))
     EXCEPT !.functions_ = TableSet(@, f.current_function_count_, f.fn)]

\* Lines 1643-1648 and the loop increment.
CreateFunction(d) ==
  [ReadFunctionPrototype(SetFunction(CreateJSFunction(d)),
                         <<"function", d.current_function_count_>>)
     EXCEPT !.current_function_count_ = @ + 1]

DeserializeClassesHeader(d) ==
  IF CountRejected(d) THEN Returned(Throw(d, "Malformed class table"))
  ELSE [Allocate(Allocate(Consume(d, 1), "classes", Token(d, 0)),
                 "shared_function_infos", d.function_count_ + 1 + Token(d, 0))
          EXCEPT !.class_count_ = Token(d, 0),
                 !.shared_function_infos_ =
                   NewFixedArray(d.function_count_ + 1 + Token(d, 0), 0),
                 !.classes_ = NewFixedArray(Token(d, 0), UnsetFunction)]

SetClass(f) ==
  [TableAccess(f, "classes", f.current_class_count_, Len(f.classes_))
     EXCEPT !.classes_ = TableSet(@, f.current_class_count_, f.fn)]

CreateClass(d) ==
  [ReadFunctionPrototype(SetClass(CreateJSFunction(d)),
                         <<"class", d.current_class_count_>>)
     EXCEPT !.current_class_count_ = @ + 1]

(***************************************************************************)
(* DeserializeArrays and DeserializeObjects.                               *)
(***************************************************************************)
\* The count check of lines 1762-1763.
ArrayCountRejected(d) == d.object_count_ > kMaxItemCount

DeserializeArraysHeader(d) ==
  IF ~CanRead(d, 1) THEN Returned(Throw(d, "Malformed array table"))
  ELSE IF ArrayCountRejected(d)
  THEN Returned(Throw([d EXCEPT !.array_count_ = Token(d, 0)],
                      "Malformed array table"))
  ELSE [Allocate(Consume(d, 1), "arrays", Token(d, 0))
          EXCEPT !.array_count_ = Token(d, 0),
                 !.arrays_ = NewFixedArray(Token(d, 0), UnsetArray)]

\* arrays_.set(current_array_count_, *array) and the loop increment.
SetArray(v) ==
  [TableAccess(v, "arrays", v.current_array_count_, Len(v.arrays_))
     EXCEPT !.arrays_ = TableSet(@, v.current_array_count_,
                                 [set |-> TRUE, elements |-> v.acc]),
            !.current_array_count_ = @ + 1]

DeserializeArraysRecord(d) ==
  IF ~CanRead(d, 1) \/ Token(d, 0) > kMaxItemCount
  THEN Returned(Throw(d, "Malformed array"))
  ELSE SetArray(ReadValues([Consume(d, 1) EXCEPT !.acc = <<>>],
                           <<"elements", d.current_array_count_>>, 0,
                           Token(d, 0)))

DeserializeObjectsHeader(d) ==
  IF CountRejected(d) THEN Returned(Throw(d, "Malformed objects table"))
  ELSE [Allocate(Consume(d, 1), "objects", Token(d, 0))
          EXCEPT !.object_count_ = Token(d, 0),
                 !.objects_ = NewFixedArray(Token(d, 0), UnsetObject)]

\* objects_.set(current_object_count_, *object) and the loop increment.
SetObject(v, map_id) ==
  [TableAccess(v, "objects", v.current_object_count_, Len(v.objects_))
     EXCEPT !.objects_ = TableSet(@, v.current_object_count_,
                                  [set |-> TRUE, map |-> map_id, props |-> v.acc]),
            !.current_object_count_ = @ + 1]

\* Map::cast(maps_.get(map_id)): an entry no shape was stored in is no map.
CastMap(d, map_id) ==
  IF TableGet(d.maps_, map_id, UnsetMap).set THEN d
  ELSE [d EXCEPT !.bad_cast = TRUE]

DeserializeObjectsRecord(d) ==
  IF ~CanRead(d, 1) \/ Token(d, 0) >= d.map_count_
  THEN Returned(Throw(d, "Malformed object"))
  ELSE SetObject(
         ReadValues([CastMap(TableAccess(LogRef(Consume(d, 1), "maps",
                                                Token(d, 0)),
                                         "maps", Token(d, 0), Len(d.maps_)),
                             Token(d, 0))
                       EXCEPT !.acc = <<>>],
                    <<"property_array", d.current_object_count_>>, 0,
                    Len(TableGet(d.maps_, Token(d, 0), UnsetMap).props)),
         Token(d, 0))

(***************************************************************************)
(* ProcessDeferredReferences.                                              *)
(***************************************************************************)
SetSlot(slots, index, value) ==
  IF index + 1 \in DOMAIN slots THEN [slots EXCEPT ![index + 1] = value] ELSE slots

\* Lines 2095-2121: the write into the container.
ResolveInto(d, container, index, target) ==
  CASE container[1] = "property_array" ->
         [d EXCEPT !.objects_ =
            TableSet(@, container[2],
                     [TableGet(@, container[2], UnsetObject)
                        EXCEPT !.props = SetSlot(@, index, target)]),
                   !.ok = TRUE]
    [] container[1] = "context" ->
         [d EXCEPT !.contexts_ =
            TableSet(@, container[2],
                     [TableGet(@, container[2], UnsetContext)
                        EXCEPT !.slots = SetSlot(@, index, target)]),
                   !.ok = TRUE]
    [] container[1] = "elements" ->
         [d EXCEPT !.arrays_ =
            TableSet(@, container[2],
                     [TableGet(@, container[2], UnsetArray)
                        EXCEPT !.elements = SetSlot(@, index, target)]),
                   !.ok = TRUE]
    [] container[1] = "map" ->
         [d EXCEPT !.maps_ =
            TableSet(@, container[2],
                     [TableGet(@, container[2], UnsetMap) EXCEPT !.proto = target]),
                   !.ok = TRUE]
    [] OTHER -> SetFunctionPrototype(d, container, target[2])

\* One tuple of the list: the target is fetched and written.
ResolveReference(d, r) ==
  ResolveInto(TableAccess(d, DeferredTable(r.target_type), r.target_index,
                          DeferredTableLen(d, r.target_type)),
              r.container, r.index,
              DeferredTarget(d, r.target_type, r.target_index))

\* The loop of lines 2051-2122 from tuple k on.
RECURSIVE ProcessDeferredFrom(_, _)

AfterResolveStop(w, k) == w

\* w is the deserializer after the write of tuple k.
AfterResolve(w, k) ==
  IF ~w.ok THEN Throw(w, "Can't reuse function prototype")
  ELSE ProcessDeferredFrom(w, k + 1)

ProcessDeferredFrom(d, k) ==
  IF k > Len(d.deferred_references_)
  THEN [d EXCEPT !.deferred_references_ = <<>>]
  ELSE IF d.deferred_references_[k].target_index
            >= DeferredLimit(d, d.deferred_references_[k].target_type)
  THEN Throw(d, DeferredMessage(d.deferred_references_[k].target_type))
  ELSE AfterResolve(ResolveReference(d, d.deferred_references_[k]), k)

ProcessDeferredReferencesOf(d) ==
  IF has_error(d) THEN d ELSE ProcessDeferredFrom(d, 1)

(***************************************************************************)
(* DeserializeExports.                                                     *)
(***************************************************************************)
\* Lines 1794-1807.  sufficient_capacity is what EnsureCapacity finds: with
\* room for count more entries it hands back the dictionary of the global
\* object itself, otherwise a grown copy.
DeserializeExportsHeader(d, sufficient_capacity) ==
  IF ~CanRead(d, 1) \/ Token(d, 0) > kMaxItemCount
  THEN Returned(Throw(d, "Malformed export table"))
  ELSE [Consume(d, 1) EXCEPT !.export_count = Token(d, 0), !.i = 0,
                             !.dictionary = global_dictionary,
                             !.dictionary_in_place = sufficient_capacity,
                             !.allocs = @ \cup {<<"exports", Token(d, 0)>>}]

\* Lines 1822-1834: nothing is added once an error is known.
AddExport(v, export_name) ==
  IF has_error(v) THEN Returned(v)
  ELSE [v EXCEPT !.dictionary = Append(@, <<export_name, v.ret>>), !.i = @ + 1]

ReadExportValue(n) == AddExport(ReadValue(n, NullHandle, 0), n.ret[2])

\* One iteration of lines 1813-1835.
DeserializeExportsRecord(d) == ReadExportValue(ReadString(d, TRUE))

\* What the global object holds after a step of DeserializeExports: an add
\* into its own dictionary shows at once, a copy only at line 1837.
GlobalAfter(d) ==
  IF d.returned THEN global_dictionary
  ELSE IF d.i >= d.export_count \/ d.dictionary_in_place THEN d.dictionary
  ELSE global_dictionary

\* WebSnapshotDeserializer::UpdatePointers
UpdatePointers(d, loc) ==
  [d EXCEPT !.raw = [t \in Tables |->
                       IF t \in {"strings", "maps", "contexts", "functions",
                                 "classes", "arrays", "objects"}
                       THEN loc[t] ELSE @[t]]]


(***************************************************************************)
(* The heap the serializer walks.  Entity k of a kind is element k + 1 of  *)
(* its sequence; values are <<tag, payload>> as above, a reference carrying *)
(* the entity's index.  Strings are named by their content, functions by   *)
(* their position in the source text of the script.                        *)
(*   maps: keys, the flags word of each property, the prototype            *)
(*   contexts: previous is 0 for a native or script context, else 1 + index *)
(***************************************************************************)
Heap ==
  [ maps |-> << [keys |-> <<3>>, flags |-> <<6>>, prototype |-> ObjectPrototype],
                [keys |-> <<>>, flags |-> <<>>, prototype |-> ObjectPrototype],
                [keys |-> <<>>, flags |-> <<>>, prototype |-> <<"object", 2>>],
                [keys |-> <<4>>, flags |-> <<6>>, prototype |-> ObjectPrototype],
                [keys |-> <<3, 4>>, flags |-> <<6, 2>>, prototype |-> <<"object", 7>>],
                [keys |-> <<4>>, flags |-> <<2>>, prototype |-> ObjectPrototype],
                [keys |-> <<4>>, flags |-> <<2>>, prototype |-> ObjectPrototype],
                [keys |-> <<3>>, flags |-> <<6>>, prototype |-> ObjectPrototype],
                [keys |-> <<3>>, flags |-> <<6>>, prototype |-> <<"array", 1>>] >>,
    objects |-> << [map |-> 0, properties |-> << <<"string", 5>> >>],
                   [map |-> 1, properties |-> <<>>],
                   [map |-> 3, properties |-> << <<"object", 3>> >>],
                   [map |-> 2, properties |-> <<>>],
                   [map |-> 4, properties |-> << <<"array", 0>>, <<"object", 4>> >>],
                   [map |-> 5, properties |-> << <<"function", 0>> >>],
                   [map |-> 6, properties |-> << <<"class", 0>> >>],
                   [map |-> 7, properties |-> << <<"object", 4>> >>],
                   [map |-> 8, properties |-> << <<"number", 1>> >>] >>,
    arrays |-> << << <<"array", 0>>, <<"object", 4>>, <<"regexp", 5, 1>> >>,
                  << <<"double", 2>>, <<"true", 0>> >>,
                  << <<"symbol", 0>>, <<"object", 0>> >> >>,
    contexts |-> << [type |-> FUNCTION, previous |-> 0, names |-> <<3>>,
                     values |-> << <<"array", 1>> >>],
                    [type |-> BLOCK, previous |-> 1, names |-> <<4>>,
                     values |-> << <<"class", 0>> >>],
                    [type |-> FUNCTION, previous |-> 0, names |-> <<3>>,
                     values |-> << <<"function", 1>> >>],
                    [type |-> BLOCK, previous |-> 0, names |-> <<3, 4>>,
                     values |-> << <<"number", 1>>, <<"null_value", 0>> >>] >>,
    functions |-> << [context |-> 2, script |-> 1, start |-> 0, end |-> 3,
                      parameter_count |-> 1, kind |-> "kNormalFunction",
                      prototype |-> <<"object", 5>>],
                     [context |-> 3, script |-> 1, start |-> 1, end |-> 2,
                      parameter_count |-> 0, kind |-> "kArrowFunction",
                      prototype |-> NoPrototype],
                     [context |-> 4, script |-> 1, start |-> 4, end |-> 6,
                      parameter_count |-> 2, kind |-> "kAsyncFunction",
                      prototype |-> NoPrototype] >>,
    classes |-> << [context |-> 1, script |-> 1, start |-> 3, end |-> 6,
                    parameter_count |-> 0, kind |-> "kBaseConstructor",
                    prototype |-> <<"object", 6>>] >> ]

\* The export lists TakeSnapshot is called with: the name of each export and
\* what its script evaluates to (<<"missing", 0>>: nothing).
ExportLists ==
  { <<>>,
    << <<1, <<"number", 1>>>>, <<2, <<"object", 0>>>> >>,
    << <<1, <<"object", 4>>>>, <<2, <<"array", 0>>>> >>,
    << <<1, <<"function", 0>>>>, <<2, <<"class", 0>>>> >>,
    << <<1, <<"function", 1>>>> >>,
    << <<1, <<"function", 2>>>> >>,
    << <<1, <<"object", 1>>>>, <<2, <<"object", 0>>>> >>,
    << <<1, <<"object", 2>>>> >>,
    << <<1, <<"missing", 0>>>>, <<2, <<"object", 0>>>> >>,
    << <<1, <<"array", 2>>>>, <<2, <<"object", 1>>>> >>,
    << <<1, <<"object", 8>>>> >> }

(***************************************************************************)
(* The serializer instance after construction (lines 193-210).  An index   *)
(* map (string_ids_ ... object_ids_) is the sequence of its keys, the key  *)
(* of id k at position k + 1.  id, found and acc carry results between the  *)
(* operators below.                                                        *)
(***************************************************************************)
NewSerializer ==
  [ error_message_ |-> NoError,
    string_ids_ |-> <<>>, map_ids_ |-> <<>>, context_ids_ |-> <<>>,
    function_ids_ |-> <<>>, class_ids_ |-> <<>>, array_ids_ |-> <<>>,
    object_ids_ |-> <<>>,
    contexts_ |-> <<>>, functions_ |-> <<>>, classes_ |-> <<>>,
    arrays_ |-> <<>>, objects_ |-> <<>>,
    string_serializer_ |-> <<>>, map_serializer_ |-> <<>>,
    context_serializer_ |-> <<>>, function_serializer_ |-> <<>>,
    class_serializer_ |-> <<>>, array_serializer_ |-> <<>>,
    object_serializer_ |-> <<>>, export_serializer_ |-> <<>>,
    export_count_ |-> 0, discovery_queue_ |-> <<>>,
    source_intervals_ |-> {}, full_source_ |-> 0, source_id_ |-> 0,
    source_offset_to_compacted_source_offset_ |-> <<>>,
    exports |-> <<>>, i |-> 0, calls |-> 0, result |-> "none",
    id |-> 0, found |-> FALSE, acc |-> <<>>,
    uninitialized |-> 0, lookup_missed |-> {} ]

\* WebSnapshotSerializer::InsertIntoIndexMap: the id of object in map, the
\* next free id if it is new.
InsertIntoIndexMap(s, map, object) ==
  IF \E p \in 1..Len(s[map]) : s[map][p] = object
  THEN [s EXCEPT !.found = TRUE,
                 !.id = (CHOOSE p \in 1..Len(s[map]) : s[map][p] = object) - 1]
  ELSE [s EXCEPT !.found = FALSE, !.id = Len(s[map]),
                 ![map] = Append(@, object)]

\* A tail that lists an item for serialization each time it is reached.
DiscoveredAgain(q, list, item, references) ==
  [q EXCEPT ![list] = Append(@, item),
            !.discovery_queue_ = IF q.found THEN @ ELSE @ \o references]

\* The tail of DiscoverArray, DiscoverObject and DiscoverContext: a new item
\* goes to the list of its kind and its outgoing references to the queue.
Discovered(q, list, item, references) ==
  IF q.found THEN q
  ELSE [q EXCEPT ![list] = Append(@, item),
                 !.discovery_queue_ = @ \o references]

\* WebSnapshotSerializer::DiscoverContext
RECURSIVE DiscoverContext(_, _)
DiscoverContext(s, context) ==
  Discovered(
    InsertIntoIndexMap(
      IF Heap.contexts[context + 1].previous # 0
      THEN DiscoverContext(s, Heap.contexts[context + 1].previous - 1)
      ELSE s,
      "context_ids_", context),
    "contexts_", context, Heap.contexts[context + 1].values)

\* WebSnapshotSerializer::DiscoverSource
DiscoverSource(s, function) ==
  IF s.full_source_ = 0
  THEN [s EXCEPT !.source_intervals_ = @ \cup {<<function.start, function.end>>},
                 !.full_source_ = function.script]
  ELSE IF s.full_source_ # function.script
  THEN BaseThrow([s EXCEPT !.source_intervals_ =
                            @ \cup {<<function.start, function.end>>}],
                 "Cannot include functions from multiple scripts")
  ELSE [s EXCEPT !.source_intervals_ = @ \cup {<<function.start, function.end>>}]

\* WebSnapshotSerializer::DiscoverContextAndPrototype
DiscoverContextAndPrototype(s, function) ==
  IF function.prototype = NoPrototype
  THEN IF function.context = 0 THEN s
       ELSE DiscoverContext(s, function.context - 1)
  ELSE [(IF function.context = 0 THEN s
         ELSE DiscoverContext(s, function.context - 1))
          EXCEPT !.discovery_queue_ = Append(@, function.prototype)]

\* DiscoverFunction and DiscoverClass after InsertIntoIndexMap.
DiscoveredFunction(q, list, item, function) ==
  IF q.found THEN q
  ELSE DiscoverSource(
         DiscoverContextAndPrototype([q EXCEPT ![list] = Append(@, item)],
                                     function),
         function)

\* The outgoing references of an object: the prototype of its map unless
\* that is Object.prototype, then the property values.
ObjectReferences(object) ==
  (IF Heap.maps[object.map + 1].prototype = ObjectPrototype THEN <<>>
   ELSE <<Heap.maps[object.map + 1].prototype>>) \o object.properties

\* The switch of Discovery (lines 593-621) on the front of the queue.
Discover(s, object) ==
  CASE object[1] = "function" ->
         DiscoveredFunction(InsertIntoIndexMap(s, "function_ids_", object[2]),
                            "functions_", object[2],
                            Heap.functions[object[2] + 1])
    [] object[1] = "class" ->
         DiscoveredFunction(InsertIntoIndexMap(s, "class_ids_", object[2]),
                            "classes_", object[2], Heap.classes[object[2] + 1])
    [] object[1] = "object" ->
         Discovered(InsertIntoIndexMap(s, "object_ids_", object[2]),
                    "objects_", object[2],
                    ObjectReferences(Heap.objects[object[2] + 1]))
    [] object[1] = "array" ->
         Discovered(InsertIntoIndexMap(s, "array_ids_", object[2]),
                    "arrays_", object[2], Heap.arrays[object[2] + 1])
    [] object[1] \in {"number", "double", "string", "regexp", "true", "false",
                      "null_value", "undefined", "wrapper"} -> s
    [] OTHER -> BaseThrow(s, "Unsupported object")

RECURSIVE DrainQueueUntilError(_)
DrainQueueUntilError(s) ==
  IF s.discovery_queue_ = <<>> \/ has_error(s) THEN s
  ELSE DrainQueueUntilError([Discover(s, Head(s.discovery_queue_))
                               EXCEPT !.discovery_queue_ = Tail(@)])

\* The loop of Discovery: the front is discovered, then popped.
RECURSIVE DrainQueue(_)
DrainQueue(s) ==
  IF s.discovery_queue_ = <<>> THEN s
  ELSE DrainQueue([Discover(s, Head(s.discovery_queue_))
                     EXCEPT !.discovery_queue_ = Tail(@)])

DiscoveryOfFrontOnly(s, start_object) ==
  [Discover([s EXCEPT !.discovery_queue_ = Append(@, start_object)], start_object)
     EXCEPT !.discovery_queue_ = Tail(@)]

\* WebSnapshotSerializer::Discovery
Discovery(s, start_object) ==
  DrainQueue([s EXCEPT !.discovery_queue_ = Append(@, start_object)])

RECURSIVE Flat(_)
Flat(records) ==
  IF records = <<>> THEN <<>> ELSE Head(records) \o Flat(Tail(records))

(***************************************************************************)
(* Serialization.  A ValueSerializer is the sequence of tokens written to  *)
(* it: one token per WriteUint32, WriteZigZag, WriteDouble or string body. *)
(***************************************************************************)
Write(s, serializer, tokens) == [s EXCEPT ![serializer] = @ \o tokens]

\* GetObjectId and its siblings: the id under which the index map holds the
\* item.
GetId(ids, item) == (CHOOSE p \in 1..Len(ids) : ids[p] = item) - 1

\* WebSnapshotSerializer::GetObjectId (lines 1023-1029) of a JSObject that
\* may be an array, a function or a class: object_ids_ holds plain objects,
\* and after a failed Lookup the local id is returned as it was declared,
\* without a value.
GetObjectId(s, object) ==
  IF /\ object[1] = "object"
     /\ \E p \in 1..Len(s.object_ids_) : s.object_ids_[p] = object[2]
  THEN GetId(s.object_ids_, object[2])
  ELSE s.uninitialized

\* s with the failed Lookup of object recorded.
LogLookup(s, object) ==
  IF /\ object[1] = "object"
     /\ \E p \in 1..Len(s.object_ids_) : s.object_ids_[p] = object[2]
  THEN s
  ELSE [s EXCEPT !.lookup_missed = @ \cup {object}]

\* WebSnapshotSerializer::SerializeString; the id is left in id.
SerializeString(s, string) ==
  IF InsertIntoIndexMap(s, "string_ids_", string).found
  THEN InsertIntoIndexMap(s, "string_ids_", string)
  ELSE Write(InsertIntoIndexMap(s, "string_ids_", string),
             "string_serializer_", <<string>>)

\* The cases of the switch of FunctionKindToFunctionFlags that do not Throw
\* (lines 54-64).
SupportedFunctionKinds ==
  {"kNormalFunction", "kArrowFunction", "kGeneratorFunction", "kAsyncFunction",
   "kAsyncArrowFunction", "kAsyncGeneratorFunction", "kBaseConstructor",
   "kDefaultBaseConstructor", "kConciseMethod", "kAsyncConciseMethod"}

\* WebSnapshotSerializerDeserializer::FunctionKindToFunctionFlags; the kinds
\* outside the supported list are reported by Throw, see FunctionInfo.
FunctionKindToFunctionFlags(kind) ==
  CASE kind = "kNormalFunction" -> 0
    [] kind = "kAsyncFunction" -> 1
    [] kind = "kGeneratorFunction" -> 2
    [] kind = "kAsyncGeneratorFunction" -> 3
    [] kind = "kArrowFunction" -> 4
    [] kind = "kAsyncArrowFunction" -> 5
    [] kind = "kConciseMethod" -> 8
    [] kind = "kAsyncConciseMethod" -> 9
    [] kind = "kBaseConstructor" -> 32
    [] kind = "kDefaultBaseConstructor" -> 96
    [] kind = "kDerivedConstructor" -> 160
    [] kind = "kDefaultDerivedConstructor" -> 224
    [] OTHER -> 0

\* The string written for the compacted source of the given length.
SourceString(length) == 10 + length

\* factory->NewSubString(full_source_, start, end): a character of the full
\* source is named by its position.
NewSubString(start, end) == [k \in 1..(end - start) |-> start + k - 1]

\* The loop of SerializeSource over the intervals not yet visited, in
\* ascending order; acc is <<current_interval_start, current_interval_end,
\* source_string>>.
RECURSIVE CompactSource(_, _)
NextInterval(intervals) ==
  CHOOSE x \in intervals :
    \A y \in intervals : x[1] < y[1] \/ (x[1] = y[1] /\ x[2] <= y[2])

Offset(s, position) ==
  IF position \in DOMAIN s.source_offset_to_compacted_source_offset_
  THEN s.source_offset_to_compacted_source_offset_[position]
  ELSE 0

SetOffset(s, position, offset) ==
  [s EXCEPT !.source_offset_to_compacted_source_offset_ =
              [p \in (DOMAIN @) \cup {position} |->
                 IF p = position THEN offset ELSE @[p]]]

CompactIntervalAtParent(s, interval) ==
  IF interval[2] <= s.acc[2]
  THEN SetOffset(s, interval[1], Offset(s, s.acc[1]))
  ELSE [SetOffset(s, interval[1], Len(s.acc[3]))
          EXCEPT !.acc = <<interval[1], interval[2],
                           s.acc[3] \o NewSubString(interval[1], interval[2])>>]

CompactInterval(s, interval) ==
  IF interval[2] <= s.acc[2]
  THEN SetOffset(s, interval[1], Offset(s, s.acc[1]) + (interval[1] - s.acc[1]))
  ELSE [SetOffset(s, interval[1], Len(s.acc[3]))
          EXCEPT !.acc = <<interval[1], interval[2],
                           s.acc[3] \o NewSubString(interval[1], interval[2])>>]

CompactSource(s, intervals) ==
  IF intervals = {} THEN s
  ELSE CompactSource(CompactInterval(s, NextInterval(intervals)),
                     intervals \ {NextInterval(intervals)})

StoreSourceId(q) == [q EXCEPT !.source_id_ = q.id]

SourceCompacted(c) ==
  StoreSourceId(SerializeString(c, SourceString(Len(c.acc[3]))))

\* WebSnapshotSerializer::SerializeSource
SerializeSource(s) ==
  IF s.source_intervals_ = {} THEN s
  ELSE SourceCompacted(CompactSource([s EXCEPT !.acc = <<0, 0, <<>>>>],
                                     s.source_intervals_))

\* WebSnapshotSerializer::WriteValue
WriteValue(s, object, serializer) ==
  CASE object[1] = "number" -> Write(s, serializer, <<INTEGER, object[2]>>)
    [] object[1] = "false" -> Write(s, serializer, <<FALSE_CONSTANT>>)
    [] object[1] = "true" -> Write(s, serializer, <<TRUE_CONSTANT>>)
    [] object[1] = "null_value" -> Write(s, serializer, <<NULL_CONSTANT>>)
    [] object[1] = "undefined" -> Write(s, serializer, <<UNDEFINED_CONSTANT>>)
    [] object[1] = "double" -> Write(s, serializer, <<DOUBLE, object[2]>>)
    [] object[1] = "function" ->
         Write(s, serializer, <<FUNCTION_ID, GetId(s.function_ids_, object[2])>>)
    [] object[1] = "class" ->
         Write(s, serializer, <<CLASS_ID, GetId(s.class_ids_, object[2])>>)
    [] object[1] = "object" ->
         Write(s, serializer, <<OBJECT_ID, GetId(s.object_ids_, object[2])>>)
    [] object[1] = "array" ->
         Write(s, serializer, <<ARRAY_ID, GetId(s.array_ids_, object[2])>>)
    [] object[1] = "regexp" ->
         Write(SerializeString(SerializeString(s, object[2]), object[3]),
               serializer,
               <<REGEXP, SerializeString(s, object[2]).id,
                 SerializeString(SerializeString(s, object[2]), object[3]).id>>)
    [] object[1] = "string" ->
         Write(SerializeString(s, object[2]), serializer,
               <<STRING_ID, SerializeString(s, object[2]).id>>)
    [] OTHER -> BaseThrow(s, "Unsupported object")

\* WriteValue for each of the values in turn.
RECURSIVE WriteValues(_, _, _)
WriteValues(s, values, serializer) ==
  IF values = <<>> THEN s
  ELSE WriteValues(WriteValue(s, Head(values), serializer), Tail(values),
                   serializer)

\* The loop of lines 433-457 from property i on: acc collects string_ids.
RECURSIVE SerializeKeys(_, _, _)
CollectKey(q) == [q EXCEPT !.acc = Append(@, q.id)]

SerializeKeys(s, keys, i) ==
  IF i > Len(keys) THEN s
  ELSE SerializeKeys(CollectKey(SerializeString(s, keys[i])), keys, i + 1)

\* first_custom_index of lines 448-451, -1 if every property has the
\* default flags.
FirstCustomIndex(map) ==
  IF \E i \in 1..Len(map.flags) : map.flags[i] # GetDefaultAttributeFlags
  THEN (CHOOSE i \in 1..Len(map.flags) :
          /\ map.flags[i] # GetDefaultAttributeFlags
          /\ \A j \in 1..(i - 1) : map.flags[j] = GetDefaultAttributeFlags) - 1
  ELSE -1

MapPropertiesAllDefault(map, string_ids) ==
  Flat([i \in 1..Len(string_ids) |->
          IF FirstCustomIndex(map) >= 0
          THEN <<GetDefaultAttributeFlags, string_ids[i]>>
          ELSE <<string_ids[i]>>])

\* Lines 478-488: the properties of the record.
MapProperties(map, string_ids) ==
  Flat([i \in 1..Len(string_ids) |->
          IF FirstCustomIndex(map) >= 0
          THEN <<IF i - 1 < FirstCustomIndex(map)
                 THEN GetDefaultAttributeFlags ELSE map.flags[i],
                 string_ids[i]>>
          ELSE <<string_ids[i]>>])

\* Lines 459-488, the keys serialized and their ids in acc.
WriteMap(k, map) ==
  IF map.prototype = ObjectPrototype
  THEN Write(k, "map_serializer_",
             <<IF FirstCustomIndex(map) = -1 THEN DEFAULT ELSE CUSTOM, 0,
               Len(k.acc)>> \o MapProperties(map, k.acc))
  ELSE IF map.prototype[1] \notin {"object", "array", "function", "class"}
  THEN BaseThrow(Write(k, "map_serializer_",
                       <<IF FirstCustomIndex(map) = -1 THEN DEFAULT ELSE CUSTOM>>),
                 "Non-JSObject __proto__s not supported")
  ELSE Write(LogLookup(k, map.prototype), "map_serializer_",
             <<IF FirstCustomIndex(map) = -1 THEN DEFAULT ELSE CUSTOM,
               GetObjectId(k, map.prototype) + 1,
               Len(k.acc)>> \o MapProperties(map, k.acc))

\* WebSnapshotSerializer::SerializeMap after InsertIntoIndexMap; the id of
\* the map is kept in id.
SerializeNewMap(q, map) ==
  IF q.found THEN q
  ELSE [WriteMap(SerializeKeys([q EXCEPT !.acc = <<>>], map.keys, 1), map)
          EXCEPT !.id = q.id]

SerializeMap(s, map) ==
  SerializeNewMap(InsertIntoIndexMap(s, "map_ids_", map), Heap.maps[map + 1])

\* WebSnapshotSerializer::SerializeObject
SerializeObject(s, object) ==
  WriteValues(Write(SerializeMap(s, object.map), "object_serializer_",
                    <<SerializeMap(s, object.map).id>>),
              object.properties, "object_serializer_")

\* WebSnapshotSerializer::SerializeArray
SerializeArray(s, array) ==
  WriteValues(Write(s, "array_serializer_", <<Len(array)>>), array,
              "array_serializer_")

\* The loop of lines 830-840 from variable i on.
RECURSIVE SerializeVariables(_, _, _)
SerializeVariables(s, context, i) ==
  IF i > Len(context.names) THEN s
  ELSE SerializeVariables(
         WriteValue(Write(SerializeString(s, context.names[i]),
                          "context_serializer_",
                          <<SerializeString(s, context.names[i]).id>>),
                    context.values[i], "context_serializer_"),
         context, i + 1)

\* WebSnapshotSerializer::SerializeContext
SerializeContext(s, context) ==
  IF context.type \notin {FUNCTION, BLOCK}
  THEN BaseThrow(s, "Unsupported context type")
  ELSE SerializeVariables(
         Write(s, "context_serializer_",
               <<context.type,
                 IF context.previous = 0 THEN 0
                 ELSE GetId(s.context_ids_, context.previous - 1) + 1,
                 Len(context.names)>>),
         context, 1)

\* The Lookup of lines 571-576.
LogPrototypeLookup(s, function) ==
  IF function.prototype = NoPrototype THEN s
  ELSE LogLookup(s, function.prototype)

\* WebSnapshotSerializer::SerializeFunctionInfo
SerializeFunctionInfo(s, serializer, function) ==
  Write(IF function.kind \notin SupportedFunctionKinds
        THEN BaseThrow(LogPrototypeLookup(s, function),
                       "Unsupported function kind")
        ELSE LogPrototypeLookup(s, function),
        serializer,
        <<IF function.context = 0 THEN 0
          ELSE GetId(s.context_ids_, function.context - 1) + 1,
          s.source_id_,
          Offset(s, function.start),
          function.end - function.start,
          function.parameter_count,
          FunctionKindToFunctionFlags(function.kind),
          IF function.prototype = NoPrototype THEN 0
          ELSE GetObjectId(s, function.prototype) + 1>>)

SerializeExportValueOnly(s, object, export_name) ==
  WriteValue([s EXCEPT !.export_count_ = @ + 1], object, "export_serializer_")

\* WebSnapshotSerializer::SerializeExport
SerializeExport(s, object, export_name) ==
  WriteValue(Write([SerializeString(s, export_name)
                      EXCEPT !.export_count_ = @ + 1],
                   "export_serializer_",
                   <<SerializeString(s, export_name).id>>),
             object, "export_serializer_")

\* The items SerializePendingItems goes through, in its order.
PendingItems(s) ==
  [j \in 1..Len(s.contexts_) |-> <<"context", s.contexts_[j]>>]
    \o [j \in 1..Len(s.functions_) |-> <<"function", s.functions_[j]>>]
    \o [j \in 1..Len(s.classes_) |-> <<"class", s.classes_[j]>>]
    \o [j \in 1..Len(s.arrays_) |-> <<"array", s.arrays_[j]>>]
    \o [j \in 1..Len(s.objects_) |-> <<"object", s.objects_[j]>>]

\* One iteration of one of the loops of SerializePendingItems.
SerializeItem(s, item) ==
  CASE item[1] = "context" -> SerializeContext(s, Heap.contexts[item[2] + 1])
    [] item[1] = "function" ->
         SerializeFunctionInfo(s, "function_serializer_",
                               Heap.functions[item[2] + 1])
    [] item[1] = "class" ->
         SerializeFunctionInfo(s, "class_serializer_", Heap.classes[item[2] + 1])
    [] item[1] = "array" -> SerializeArray(s, Heap.arrays[item[2] + 1])
    [] OTHER -> SerializeObject(s, Heap.objects[item[2] + 1])

\* A buffer put together with the object table ahead of the array table.
AssembleObjectsFirst(s) ==
  <<kMagicNumber>>
    \o <<Len(s.string_ids_)>> \o s.string_serializer_
    \o <<Len(s.map_ids_)>> \o s.map_serializer_
    \o <<Len(s.context_ids_)>> \o s.context_serializer_
    \o <<Len(s.function_ids_)>> \o s.function_serializer_
    \o <<Len(s.object_ids_)>> \o s.object_serializer_
    \o <<Len(s.array_ids_)>> \o s.array_serializer_
    \o <<Len(s.class_ids_)>> \o s.class_serializer_
    \o <<s.export_count_>> \o s.export_serializer_

\* What WriteSnapshot puts together after SerializePendingItems (lines
\* 334-358).
Assemble(s) ==
  <<kMagicNumber>>
    \o <<Len(s.string_ids_)>> \o s.string_serializer_
    \o <<Len(s.map_ids_)>> \o s.map_serializer_
    \o <<Len(s.context_ids_)>> \o s.context_serializer_
    \o <<Len(s.function_ids_)>> \o s.function_serializer_
    \o <<Len(s.array_ids_)>> \o s.array_serializer_
    \o <<Len(s.object_ids_)>> \o s.object_serializer_
    \o <<Len(s.class_ids_)>> \o s.class_serializer_
    \o <<s.export_count_>> \o s.export_serializer_

(***************************************************************************)
(* What one changed token or a cut does to a snapshot, and the global      *)
(* object before decoding.                                                 *)
(***************************************************************************)
MaxTok == 12
MaxGC == 1
MaxCalls == 2
MaxUninitialized == 1

NoMutation == <<"none", 0, 0>>

Mutations(b) ==
  {NoMutation}
    \cup {<<"set", k, v>> : k \in 1..Len(b), v \in 0..MaxTok}
    \cup {<<"cut", k, 0>> : k \in 0..(Len(b) - 1)}

Mutate(b, m) ==
  CASE m[1] = "set" -> [b EXCEPT ![m[2]] = m[3]]
    [] m[1] = "cut" -> SubSeq(b, 1, m[2])
    [] OTHER -> b

InitialGlobal == << <<9, <<"number", 7>>>> >>

\* No cppgc heap is set up.
NoHeap == <<>>

(***************************************************************************)
(* The serializer's steps.                                                 *)
(***************************************************************************)
Encode(s, target) ==
  /\ ser' = s
  /\ pc' = target
  /\ UNCHANGED <<des, heap_loc, gc_count, cppgc, global_dictionary>>

\* TakeSnapshot up to the loop over the exports (lines 217-230).
TakeSnapshot ==
  /\ pc \in {"serializer", "written"}
  /\ des.calls = 0
  /\ ser.calls < MaxCalls
  /\ \E exports \in ExportLists :
       IF Len(ser.string_ids_) > 0
       THEN Encode([BaseThrow(ser, "Can't reuse WebSnapshotSerializer")
                      EXCEPT !.calls = @ + 1, !.result = "false"],
                   "written")
       ELSE Encode([ser EXCEPT !.calls = @ + 1, !.result = "none",
                               !.exports = exports, !.i = 0,
                               !.contexts_ = <<>>, !.functions_ = <<>>,
                               !.classes_ = <<>>, !.arrays_ = <<>>,
                               !.objects_ = <<>>],
                   IF exports = <<>> THEN "source" ELSE "discovery")
  /\ UNCHANGED <<buffer, mutation>>

\* One iteration of the loop of lines 231-250: the script of export i is
\* run and what it evaluates to is discovered.
DiscoveryStep ==
  /\ pc = "discovery"
  /\ IF ser.exports[ser.i + 1][2][1] \in {"missing", "undefined", "null_value"}
     THEN Encode([BaseThrow(ser, "Exported object not found")
                    EXCEPT !.result = "false"],
                 "written")
     ELSE Encode([Discovery(ser, ser.exports[ser.i + 1][2]) EXCEPT !.i = @ + 1],
                 IF ser.i + 1 < Len(ser.exports) THEN "discovery" ELSE "source")
  /\ UNCHANGED <<buffer, mutation>>

SourceStep ==
  /\ pc = "source"
  /\ Encode([SerializeSource(ser) EXCEPT !.i = 0],
            IF ser.exports = <<>> THEN "pending" ELSE "export")
  /\ UNCHANGED <<buffer, mutation>>

\* One iteration of the loop of lines 254-259.
ExportStep ==
  /\ pc = "export"
  /\ Encode([SerializeExport(ser, ser.exports[ser.i + 1][2],
                             ser.exports[ser.i + 1][1])
               EXCEPT !.i = IF ser.i + 1 < Len(ser.exports) THEN @ + 1 ELSE 0],
            IF ser.i + 1 < Len(ser.exports) THEN "export" ELSE "pending")
  /\ UNCHANGED <<buffer, mutation>>

\* One iteration of a loop of SerializePendingItems, called by WriteSnapshot;
\* uninitialized is what a local without a value holds during it.
PendingItemStep ==
  /\ pc = "pending"
  /\ ser.i < Len(PendingItems(ser))
  /\ \E uninitialized \in 0..MaxUninitialized :
       Encode([SerializeItem([ser EXCEPT !.uninitialized = uninitialized],
                             PendingItems(ser)[ser.i + 1])
                 EXCEPT !.i = @ + 1, !.uninitialized = 0],
              "pending")
  /\ UNCHANGED <<buffer, mutation>>

\* The rest of WriteSnapshot (lines 323-366) and of TakeSnapshot (263-267).
WriteSnapshot ==
  /\ pc = "pending"
  /\ ser.i = Len(PendingItems(ser))
  /\ Encode([ser EXCEPT !.result = IF has_error(ser) THEN "false" ELSE "true"],
            "written")
  /\ buffer' = IF has_error(ser) THEN buffer ELSE Assemble(ser)
  /\ mutation' = IF has_error(ser) THEN mutation ELSE NoMutation

EncodeStep ==
  \/ TakeSnapshot \/ DiscoveryStep \/ SourceStep \/ ExportStep
  \/ PendingItemStep \/ WriteSnapshot

\* The buffer of the first snapshot reaches the deserializer with one token
\* changed or cut short.
Corrupt ==
  /\ pc = "written"
  /\ ser.calls = 1
  /\ ser.result = "true"
  /\ mutation = NoMutation
  /\ \E m \in Mutations(buffer) \ {NoMutation} :
       /\ mutation' = m
       /\ buffer' = Mutate(buffer, m)
  /\ UNCHANGED <<ser, des, pc, heap_loc, gc_count, cppgc, global_dictionary>>

(***************************************************************************)
(* The deserializer's steps.                                               *)
(***************************************************************************)
\* Whether the loop of table t has records left to read.
More(d, t) ==
  CASE t = "strings" -> d.i < d.string_count_
    [] t = "maps" -> d.i < d.map_count_
    [] t = "contexts" -> d.i < d.context_count_
    [] t = "functions" -> d.current_function_count_ < d.function_count_
    [] t = "arrays" -> d.current_array_count_ < d.array_count_
    [] t = "objects" -> d.current_object_count_ < d.object_count_
    [] t = "classes" -> d.current_class_count_ < d.class_count_
    [] t = "exports" -> d.i < d.export_count
    [] OTHER -> TRUE

Go(d, target) ==
  /\ des' = [d EXCEPT !.returned = FALSE]
  /\ pc' = target
  /\ UNCHANGED <<ser, buffer, mutation, heap_loc, gc_count, cppgc>>

\* d is the deserializer after a step of the handler of table t: the handler
\* goes on with its loop, or has returned and the next one is called.
Proceed(d, t, loop, next) ==
  Go(d, IF d.returned \/ ~More(d, t) THEN next ELSE loop)

Finish(d, result) == Go([d EXCEPT !.result = result], "done")

\* DeserializeSnapshot up to the magic number (lines 1171-1181).
ReadMagic(d) ==
  IF ~CanRead(d, 1) \/ Token(d, 0) # kMagicNumber
  THEN Finish(Throw(d, "Invalid magic number"), "false")
  ELSE Go(Consume(d, 1), "strings")

\* Deserialize() up to the magic number of DeserializeSnapshot.
Deserialize ==
  /\ pc \in {"written", "done"}
  /\ des.calls < MaxCalls
  /\ IF des.deserialized_
     THEN Finish(Throw([des EXCEPT !.calls = @ + 1],
                       "Can't reuse WebSnapshotDeserializer"), "false")
     ELSE ReadMagic([des EXCEPT !.calls = @ + 1, !.deserialized_ = TRUE,
                                !.deferred_references_ = <<>>])
  /\ UNCHANGED global_dictionary

DeserializeStrings ==
  /\ pc = "strings"
  /\ Proceed(DeserializeStringsHeader(des), "strings", "strings_loop", "maps")
  /\ UNCHANGED global_dictionary

StringRecord ==
  /\ pc = "strings_loop"
  /\ Proceed(DeserializeStringsRecord(des), "strings", "strings_loop", "maps")
  /\ UNCHANGED global_dictionary

DeserializeMaps ==
  /\ pc = "maps"
  /\ Proceed(DeserializeMapsHeader(des), "maps", "maps_loop", "contexts")
  /\ UNCHANGED global_dictionary

MapRecord ==
  /\ pc = "maps_loop"
  /\ Proceed(DeserializeMapsRecord(des), "maps", "maps_loop", "contexts")
  /\ UNCHANGED global_dictionary

DeserializeContexts ==
  /\ pc = "contexts"
  /\ Proceed(DeserializeContextsHeader(des), "contexts", "contexts_loop",
             "functions")
  /\ UNCHANGED global_dictionary

ContextRecord ==
  /\ pc = "contexts_loop"
  /\ Proceed(DeserializeContextsRecord(des), "contexts", "contexts_loop",
             "functions")
  /\ UNCHANGED global_dictionary

DeserializeFunctions ==
  /\ pc = "functions"
  /\ Proceed(DeserializeFunctionsHeader(des), "script", "functions_script",
             "arrays")
  /\ UNCHANGED global_dictionary

FunctionsScript ==
  /\ pc = "functions_script"
  /\ Proceed(SetSharedFunctionInfos(des), "functions", "functions_loop", "arrays")
  /\ UNCHANGED global_dictionary

FunctionRecord ==
  /\ pc = "functions_loop"
  /\ Proceed(DeserializeFunctionsRecord(des), "create", "functions_create",
             "arrays")
  /\ UNCHANGED global_dictionary

FunctionCreate ==
  /\ pc = "functions_create"
  /\ Proceed(CreateFunction(des), "functions", "functions_loop", "arrays")
  /\ UNCHANGED global_dictionary

DeserializeArrays ==
  /\ pc = "arrays"
  /\ Proceed(DeserializeArraysHeader(des), "arrays", "arrays_loop", "objects")
  /\ UNCHANGED global_dictionary

ArrayRecord ==
  /\ pc = "arrays_loop"
  /\ Proceed(DeserializeArraysRecord(des), "arrays", "arrays_loop", "objects")
  /\ UNCHANGED global_dictionary

DeserializeObjects ==
  /\ pc = "objects"
  /\ Proceed(DeserializeObjectsHeader(des), "objects", "objects_loop", "classes")
  /\ UNCHANGED global_dictionary

ObjectRecord ==
  /\ pc = "objects_loop"
  /\ Proceed(DeserializeObjectsRecord(des), "objects", "objects_loop", "classes")
  /\ UNCHANGED global_dictionary

DeserializeClasses ==
  /\ pc = "classes"
  /\ Proceed(DeserializeClassesHeader(des), "classes", "classes_loop", "deferred")
  /\ UNCHANGED global_dictionary

ClassRecord ==
  /\ pc = "classes_loop"
  /\ Proceed(DeserializeClassesRecord(des), "create", "classes_create", "deferred")
  /\ UNCHANGED global_dictionary

ClassCreate ==
  /\ pc = "classes_create"
  /\ Proceed(CreateClass(des), "classes", "classes_loop", "deferred")
  /\ UNCHANGED global_dictionary

ProcessDeferredReferences ==
  /\ pc = "deferred"
  /\ Go(ProcessDeferredReferencesOf(des), "exports")
  /\ UNCHANGED global_dictionary

\* d is the deserializer after a step of DeserializeExports.
ProceedExports(d) ==
  /\ Proceed(d, "exports", "exports_loop", "script")
  /\ global_dictionary' = GlobalAfter(d)

DeserializeExports ==
  /\ pc = "exports"
  /\ \E sufficient_capacity \in BOOLEAN :
       ProceedExports(DeserializeExportsHeader(des, sufficient_capacity))

ExportRecord ==
  /\ pc = "exports_loop"
  /\ ProceedExports(DeserializeExportsRecord(des))

\* Lines 1156-1168: the result of DeserializeSnapshot, then DeserializeScript,
\* whose script runs to completion or throws.
DeserializeScript ==
  /\ pc = "script"
  /\ IF has_error(des) THEN Finish(des, "false")
     ELSE IF End - des.position_ > 0
     THEN \E runs \in BOOLEAN :
            Finish([des EXCEPT !.script_run = TRUE],
                   IF runs THEN "true" ELSE "false")
     ELSE Finish(des, "true")
  /\ UNCHANGED global_dictionary

\* A collection at an allocation of the running deserializer: the backing
\* stores move and the epilogue callback runs.
CollectGarbage ==
  /\ des.calls > 0
  /\ pc # "done"
  /\ gc_count < MaxGC
  /\ gc_count' = gc_count + 1
  /\ heap_loc' = [t \in Tables |-> heap_loc[t] + 1]
  /\ des' = UpdatePointers(des, heap_loc')
  /\ UNCHANGED <<ser, buffer, mutation, pc, global_dictionary, cppgc>>

DecodeStep ==
  \/ Deserialize
  \/ DeserializeStrings \/ StringRecord
  \/ DeserializeMaps \/ MapRecord
  \/ DeserializeContexts \/ ContextRecord
  \/ DeserializeFunctions \/ FunctionsScript \/ FunctionRecord \/ FunctionCreate
  \/ DeserializeArrays \/ ArrayRecord
  \/ DeserializeObjects \/ ObjectRecord
  \/ DeserializeClasses \/ ClassRecord \/ ClassCreate
  \/ ProcessDeferredReferences
  \/ DeserializeExports \/ ExportRecord
  \/ DeserializeScript

Init ==
  /\ ser = NewSerializer
  /\ buffer = <<>>
  /\ mutation = NoMutation
  /\ des = NewDeserializer
  /\ pc = "serializer"
  /\ heap_loc = [t \in Tables |-> 0]
  /\ gc_count = 0
  /\ global_dictionary = InitialGlobal
  /\ cppgc = NoHeap

\* Snapshots taken, possibly corrupted, and decoded; no collection.
Next == EncodeStep \/ Corrupt \/ DecodeStep

Spec == Init /\ [][Next]_vars

\* Snapshots taken and decoded as they are, with collections at any step of
\* the deserializer.
NextGC == EncodeStep \/ DecodeStep \/ CollectGarbage

SpecGC == Init /\ [][NextGC]_vars

\* The flags words FunctionFlagsToFunctionKind is given: the eight trait
\* bits.
MaxFlags == 255

InitFlags ==
  /\ ser = NewSerializer
  /\ buffer \in {<<flags>> : flags \in 0..MaxFlags}
  /\ mutation = NoMutation
  /\ des = NewDeserializer
  /\ pc = "flags"
  /\ heap_loc = [t \in Tables |-> 0]
  /\ gc_count = 0
  /\ global_dictionary = InitialGlobal
  /\ cppgc = NoHeap

\* FunctionFlagsToFunctionKind(flags) is called on a deserializer: the kind is
\* left in ret and flags of no kind are reported (lines 149-152).
DecodeFlags ==
  /\ pc = "flags"
  /\ des' = Ret(ThrowIfInvalid(des, FunctionFlagsToFunctionKind(buffer[1])),
                <<"kind", FunctionFlagsToFunctionKind(buffer[1])>>)
  /\ pc' = "flags_done"
  /\ UNCHANGED <<ser, buffer, mutation, heap_loc, gc_count, cppgc, global_dictionary>>

NextFlags == DecodeFlags

\* FunctionFlagsToFunctionKind applied to every flags word.
SpecFlags == InitFlags /\ [][NextFlags]_vars

\* The source positions and the number of functions of the scripts whose
\* source is compacted.
MaxPosition == 4
MaxIntervals == 3

\* The function whose source is the text from interval[1] up to interval[2].
FunctionSpanning(interval) ==
  [context |-> 0, script |-> 1, start |-> interval[1], end |-> interval[2],
   parameter_count |-> 0, kind |-> "kNormalFunction", prototype |-> NoPrototype]

\* The intervals in the order the loop of SerializeSource visits them.
RECURSIVE IntervalsInOrder(_)
IntervalsInOrder(intervals) ==
  IF intervals = {} THEN <<>>
  ELSE <<NextInterval(intervals)>>
         \o IntervalsInOrder(intervals \ {NextInterval(intervals)})

\* DiscoverSource has recorded the source intervals of up to MaxIntervals
\* functions of one script.
InitSource ==
  /\ \E intervals \in SUBSET {interval \in (0..MaxPosition) \X (0..MaxPosition) :
                                 interval[1] < interval[2]} :
       /\ Cardinality(intervals) \in 1..MaxIntervals
       /\ ser = [NewSerializer EXCEPT !.source_intervals_ = intervals,
                                      !.full_source_ = 1]
  /\ buffer = <<>>
  /\ mutation = NoMutation
  /\ des = NewDeserializer
  /\ pc = "compact"
  /\ heap_loc = [t \in Tables |-> 0]
  /\ gc_count = 0
  /\ global_dictionary = InitialGlobal
  /\ cppgc = NoHeap

\* SerializeSource() as TakeSnapshot calls it (line 252).
CompactStep ==
  /\ pc = "compact"
  /\ ser' = [SerializeSource(ser) EXCEPT !.i = 0]
  /\ pc' = "spans"
  /\ UNCHANGED <<buffer, mutation, des, heap_loc, gc_count, cppgc, global_dictionary>>

\* SerializeFunctionInfo for the next function, in the order of the
\* intervals.
SpanStep ==
  /\ pc = "spans"
  /\ ser.i < Cardinality(ser.source_intervals_)
  /\ ser' = [SerializeFunctionInfo(
               ser, "function_serializer_",
               FunctionSpanning(IntervalsInOrder(ser.source_intervals_)[ser.i + 1]))
               EXCEPT !.i = @ + 1]
  /\ UNCHANGED <<buffer, mutation, des, pc, heap_loc, gc_count, cppgc,
                 global_dictionary>>

NextSource == CompactStep \/ SpanStep

\* The source of every set of intervals is compacted and the span of each
\* function is written.
SpecSource == InitSource /\ [][NextSource]_vars

(***************************************************************************)
(* The explicit management of cppgc objects.  A normal page holds the      *)
(* regular object, whose header stands at RegularHeader, and the linear    *)
(* allocation buffer of its space; the large object has a page of its own. *)
(* Addresses and sizes are in bytes, a size_t has SizeBits bits.  The      *)
(* contents of memory are not part of the state, so SetMemoryAccessible    *)
(* and SetMemoryInaccessible leave it as it is.                            *)
(***************************************************************************)
kAllocationGranularity == 8
sizeof_HeapObjectHeader == 8
kSmallestSpaceSize == 32

PageGranules == 6
SizeBits == 6

PageSize == PageGranules * kAllocationGranularity
SizeMax == 2 ^ SizeBits

RegularHeader == 0
LargeHeader == PageSize + kAllocationGranularity
LargePayloadSize == PageSize

\* The granule addresses from begin up to end.
Granules(begin, end) ==
  {a \in begin..(end - 1) : a % kAllocationGranularity = 0}

\* A heap with a regular object of allocated_size bytes and the given
\* linear allocation buffer; what lies between the two is another object.
NewHeap(allocated_size, lab_start, lab_size, atomic, marker, sweeping) ==
  [ in_atomic_pause |-> atomic, marker |-> marker,
    sweeping_in_progress |-> sweeping,
    headers |-> [regular |-> [allocated_size |-> allocated_size,
                              finalized |-> FALSE],
                 large |-> [allocated_size |-> 0, finalized |-> FALSE]],
    live |-> {"regular", "large"},
    pages |-> {"normal", "large"},
    lab |-> [start |-> lab_start, size |-> lab_size],
    free_list |-> {},
    explicit_free |-> 0,
    object_start_bitmap |->
      {RegularHeader}
        \cup (IF lab_start > RegularHeader + allocated_size
              THEN {RegularHeader + allocated_size} ELSE {}),
    remembered_slots |->
      Granules(RegularHeader + sizeof_HeapObjectHeader,
               RegularHeader + allocated_size)
        \cup Granules(LargeHeader + sizeof_HeapObjectHeader,
                      LargeHeader + LargePayloadSize),
    call |-> <<"none", "none", 0>>,
    ret |-> "none" ]

\* InGC (lines 20-26)
InGCWithoutSweeper(h) == h.in_atomic_pause \/ h.marker

InGC(h) == h.in_atomic_pause \/ h.marker \/ h.sweeping_in_progress

\* InvalidateRememberedSlots (lines 28-46) in a build with a young
\* generation.
InvalidateRememberedSlots(h, begin, end) ==
  [h EXCEPT !.remembered_slots = {slot \in @ : ~(begin <= slot /\ slot < end)}]

\* HeapObjectHeader::ObjectEnd of the regular object.
ObjectEnd(h) == RegularHeader + h.headers["regular"].allocated_size

\* ExplicitManagementImpl::FreeUnreferencedObject: a large object goes with
\* its page (lines 63-68), a regular one to the linear allocation buffer it
\* ends at or else to the free list (lines 69-86).
FreeUnreferencedObject(h, object) ==
  IF InGC(h) THEN h
  ELSE IF object = "large"
  THEN InvalidateRememberedSlots(
         [h EXCEPT !.headers["large"].finalized = TRUE,
                   !.pages = @ \ {"large"},
                   !.live = @ \ {"large"},
                   !.explicit_free = @ + LargePayloadSize],
         LargeHeader + sizeof_HeapObjectHeader, LargeHeader + LargePayloadSize)
  ELSE IF ObjectEnd(h) = h.lab.start
  THEN InvalidateRememberedSlots(
         [h EXCEPT !.headers["regular"].finalized = TRUE,
                   !.live = @ \ {"regular"},
                   !.lab = [start |-> RegularHeader,
                            size |-> @.size + h.headers["regular"].allocated_size],
                   !.object_start_bitmap = @ \ {RegularHeader}],
         RegularHeader + sizeof_HeapObjectHeader, ObjectEnd(h))
  ELSE InvalidateRememberedSlots(
         [h EXCEPT !.headers["regular"].finalized = TRUE,
                   !.live = @ \ {"regular"},
                   !.explicit_free = @ + h.headers["regular"].allocated_size,
                   !.free_list =
                     @ \cup {<<RegularHeader,
                               h.headers["regular"].allocated_size>>}],
         RegularHeader + sizeof_HeapObjectHeader, ObjectEnd(h))

\* Grow (lines 95-112)
Grow(h, new_size, size_delta) ==
  IF h.lab.start = ObjectEnd(h) /\ h.lab.size >= size_delta
  THEN [h EXCEPT !.lab = [start |-> @.start + size_delta,
                          size |-> @.size - size_delta],
                 !.headers["regular"].allocated_size = new_size,
                 !.ret = "true"]
  ELSE [h EXCEPT !.ret = "false"]

\* A Shrink that gives every tail back.
ShrinkEveryTail(h, new_size, size_delta) ==
  [InvalidateRememberedSlots(
     IF h.lab.start = ObjectEnd(h)
     THEN [h EXCEPT !.lab = [start |-> ObjectEnd(h) - size_delta,
                             size |-> @.size + size_delta],
                    !.headers["regular"].allocated_size = new_size]
     ELSE [h EXCEPT !.explicit_free = @ + size_delta,
                    !.free_list = @ \cup {<<ObjectEnd(h) - size_delta, size_delta>>},
                    !.object_start_bitmap = @ \cup {ObjectEnd(h) - size_delta},
                    !.headers["regular"].allocated_size = new_size],
     ObjectEnd(h) - size_delta, ObjectEnd(h))
     EXCEPT !.ret = "true"]

\* Shrink (lines 114-144)
Shrink(h, new_size, size_delta) ==
  [InvalidateRememberedSlots(
     IF h.lab.start = ObjectEnd(h)
     THEN [h EXCEPT !.lab = [start |-> ObjectEnd(h) - size_delta,
                             size |-> @.size + size_delta],
                    !.headers["regular"].allocated_size = new_size]
     ELSE IF size_delta >= kSmallestSpaceSize
     THEN [h EXCEPT !.explicit_free = @ + size_delta,
                    !.free_list = @ \cup {<<ObjectEnd(h) - size_delta, size_delta>>},
                    !.object_start_bitmap = @ \cup {ObjectEnd(h) - size_delta},
                    !.headers["regular"].allocated_size = new_size]
     ELSE h,
     ObjectEnd(h) - size_delta, ObjectEnd(h))
     EXCEPT !.ret = "true"]

\* The new_size of Resize (lines 162-163): RoundUp<kAllocationGranularity>
\* of the sum, both on a size_t.
NewSize(new_object_size) ==
  (((((sizeof_HeapObjectHeader + new_object_size) % SizeMax)
       + kAllocationGranularity - 1) \div kAllocationGranularity)
     * kAllocationGranularity) % SizeMax

\* ExplicitManagementImpl::Resize
Resize(h, object, new_object_size) ==
  IF InGC(h) THEN [h EXCEPT !.ret = "false"]
  ELSE IF object = "large" THEN [h EXCEPT !.ret = "false"]
  ELSE IF NewSize(new_object_size) > h.headers["regular"].allocated_size
  THEN Grow(h, NewSize(new_object_size),
            NewSize(new_object_size) - h.headers["regular"].allocated_size)
  ELSE IF h.headers["regular"].allocated_size > NewSize(new_object_size)
  THEN Shrink(h, NewSize(new_object_size),
              h.headers["regular"].allocated_size - NewSize(new_object_size))
  ELSE [h EXCEPT !.ret = "true"]

\* A heap in or outside a collection, with a regular object and a linear
\* allocation buffer behind it on the same page.
InitHeap ==
  /\ ser = NewSerializer
  /\ buffer = <<>>
  /\ mutation = NoMutation
  /\ des = NewDeserializer
  /\ pc = "heap"
  /\ heap_loc = [t \in Tables |-> 0]
  /\ gc_count = 0
  /\ global_dictionary = InitialGlobal
  /\ \E allocated_size \in Granules(2 * kAllocationGranularity, PageSize),
        lab_start, lab_size \in Granules(0, PageSize + 1),
        atomic, marker, sweeping \in BOOLEAN :
       /\ RegularHeader + allocated_size <= lab_start
       /\ lab_start + lab_size <= PageSize
       /\ cppgc = NewHeap(allocated_size, lab_start, lab_size,
                          atomic, marker, sweeping)

\* The embedder frees an object.
FreeStep ==
  /\ pc = "heap"
  /\ \E object \in cppgc.live :
       cppgc' = [FreeUnreferencedObject(cppgc, object)
                   EXCEPT !.call = <<"FreeUnreferencedObject", object, 0>>,
                          !.ret = "void"]
  /\ pc' = "heap_done"
  /\ UNCHANGED <<ser, buffer, mutation, des, heap_loc, gc_count,
                 global_dictionary>>

\* The embedder asks for another size of an object.
ResizeStep ==
  /\ pc = "heap"
  /\ \E object \in cppgc.live, new_object_size \in 0..(SizeMax - 1) :
       cppgc' = [Resize(cppgc, object, new_object_size)
                   EXCEPT !.call = <<"Resize", object, new_object_size>>]
  /\ pc' = "heap_done"
  /\ UNCHANGED <<ser, buffer, mutation, des, heap_loc, gc_count,
                 global_dictionary>>

NextHeap == FreeStep \/ ResizeStep

\* One call of the explicit management on every heap.
SpecHeap == InitHeap /\ [][NextHeap]_vars

(***************************************************************************)
(* Claims.                                                                 *)
(***************************************************************************)
\* A record of the export table failed to decode: DeserializeExports
\* returned from inside its loop.
ExportFailed == has_error(des) /\ des.i < des.export_count

\* C1: if a record of the export table fails to decode, then after
\* Deserialize has returned false the global object holds exactly the
\* bindings it held before the call.
C1_ExportAtomicity ==
  (pc = "done" /\ des.result = "false" /\ ExportFailed)
    => global_dictionary = InitialGlobal

\* The count the snapshot declares for table t.
DeclaredCount(d, t) ==
  CASE t = "strings" -> d.string_count_
    [] t = "maps" -> d.map_count_
    [] t = "contexts" -> d.context_count_
    [] t = "functions" -> d.function_count_
    [] t = "classes" -> d.class_count_
    [] t = "arrays" -> d.array_count_
    [] OTHER -> d.object_count_

\* C2: a reference field whose id is equal to or greater than the declared
\* count of its table makes decode fail, and no table is indexed at or
\* beyond its declared count.
C2_BoundsRejection ==
  /\ des.oob = {}
  /\ (pc = "done" /\ des.result = "true")
       => \A r \in des.ref_log : r[2] < DeclaredCount(des, r[1])

\* The slot a logged reference was read into, as the tables hold it now.
SlotOf(d, e) ==
  CASE e.from = "context" -> TableGet(d.contexts_, e.at, UnsetContext).slots[e.index + 1]
    [] e.from = "elements" -> TableGet(d.arrays_, e.at, UnsetArray).elements[e.index + 1]
    [] OTHER -> TableGet(d.objects_, e.at, UnsetObject).props[e.index + 1]

\* A logged reference sits in a record that holds Values and names an entity
\* of the snapshot as the serializer wrote it.
IsForwardReference(e) ==
  /\ mutation = NoMutation
  /\ e.from \in {"context", "elements", "property_array"}
  /\ e.id < CASE e.type = FUNCTION_ID -> Len(ser.function_ids_)
              [] e.type = CLASS_ID -> Len(ser.class_ids_)
              [] e.type = ARRAY_ID -> Len(ser.array_ids_)
              [] OTHER -> Len(ser.object_ids_)

\* C3: a Value of a context slot, array element or object property that
\* names an array, object, function or class not yet deserialized, but below
\* the count its table declares, is recorded as a deferred reference and not
\* failed, and once the deferred references are processed the slot holds the
\* entity of that id; a context slot naming a function included.
C3_ForwardReferencesDeferred ==
  \A e \in des.fwd_log :
    IsForwardReference(e)
      => /\ e.deferred
         /\ (pc \in {"exports", "exports_loop", "script", "done"}
               /\ ~has_error(des))
              => SlotOf(des, e) = DeferredTarget(des, e.type, e.id)

\* C5: with a collection possible at every step of decode, each cached raw
\* table reference (strings, maps, contexts, functions, classes, arrays,
\* objects, shared function infos) is at the location of its handle whenever
\* it is read or written.
C5_NoStaleRawReference == des.stale_use = {}

\* C6: no table's backing array is allocated for a declared count equal to
\* or greater than kMaxItemCount: such a count fails decode first.
C6_CountCeiling ==
  \A a \in des.allocs :
    a[1] # "shared_function_infos" => a[2] < kMaxItemCount

\* In the snapshot as the serializer wrote it, the shape with id a names the
\* object with id b as its prototype while b, or an object that b holds in a
\* property, is typed by that shape.
PrototypeCycle(a, b) ==
  /\ mutation = NoMutation
  /\ ser.result = "true"
  /\ Heap.maps[ser.map_ids_[a + 1] + 1].prototype
       = <<"object", ser.object_ids_[b + 1]>>
  /\ \E s \in 1..Len(ser.object_ids_) :
       /\ Heap.objects[ser.object_ids_[s] + 1].map = ser.map_ids_[a + 1]
       /\ \/ s = b + 1
          \/ \E k \in DOMAIN Heap.objects[ser.object_ids_[b + 1] + 1].properties :
               Heap.objects[ser.object_ids_[b + 1] + 1].properties[k]
                 = <<"object", ser.object_ids_[s]>>

\* C10: a snapshot in which shape A names object B as its prototype while B
\* or a sibling B refers to is typed by A decodes successfully, and after the
\* deferred references are processed the prototype of shape A, and so of
\* every object typed by A, is B.
C10_PrototypeCycle ==
  \A a \in 0..(Len(ser.map_ids_) - 1), b \in 0..(Len(ser.object_ids_) - 1) :
    (PrototypeCycle(a, b) /\ pc = "done" /\ des.calls = 1)
      => /\ des.result = "true"
         /\ TableGet(des.maps_, a, UnsetMap).proto = <<"object", b>>

\* The first snapshot-decoding call has returned on the buffer exactly as a
\* successful TakeSnapshot wrote it.
SnapshotDecoded ==
  /\ mutation = NoMutation
  /\ ser.result = "true"
  /\ pc = "done"
  /\ des.calls = 1

\* The id of item in an index map of the serializer, -1 if it has none.
IdOf(ids, item) ==
  IF \E p \in 1..Len(ids) : ids[p] = item THEN GetId(ids, item) ELSE -1

\* The image of a value of the heap in the decoded graph: an entity is named
\* by the id the serializer gave it, anything else is itself.
Image(v) ==
  CASE v[1] = "object" -> <<"object", IdOf(ser.object_ids_, v[2])>>
    [] v[1] = "array" -> <<"array", IdOf(ser.array_ids_, v[2])>>
    [] v[1] = "function" -> <<"function", IdOf(ser.function_ids_, v[2])>>
    [] v[1] = "class" -> <<"class", IdOf(ser.class_ids_, v[2])>>
    [] OTHER -> v

Images(values) == [k \in DOMAIN values |-> Image(values[k])]

\* The decoded object, array, context, function or class of id k is the image
\* of the entity the serializer gave id k.
PropertiesAreImage(k) ==
  /\ TableGet(des.objects_, k, UnsetObject).set
  /\ TableGet(des.objects_, k, UnsetObject).props
       = Images(Heap.objects[ser.object_ids_[k + 1] + 1].properties)

ObjectIsImage(k) ==
  /\ PropertiesAreImage(k)
  /\ TableGet(des.maps_, TableGet(des.objects_, k, UnsetObject).map, UnsetMap).proto
       = Image(Heap.maps[Heap.objects[ser.object_ids_[k + 1] + 1].map + 1].prototype)

ArrayIsImage(k) ==
  /\ TableGet(des.arrays_, k, UnsetArray).set
  /\ TableGet(des.arrays_, k, UnsetArray).elements
       = Images(Heap.arrays[ser.array_ids_[k + 1] + 1])

ContextIsImage(k) ==
  /\ TableGet(des.contexts_, k, UnsetContext).set
  /\ TableGet(des.contexts_, k, UnsetContext).slots
       = Images(Heap.contexts[ser.context_ids_[k + 1] + 1].values)
  /\ TableGet(des.contexts_, k, UnsetContext).names
       = Heap.contexts[ser.context_ids_[k + 1] + 1].names
  /\ TableGet(des.contexts_, k, UnsetContext).parent
       = IF Heap.contexts[ser.context_ids_[k + 1] + 1].previous = 0 THEN 0
         ELSE 1 + IdOf(ser.context_ids_,
                       Heap.contexts[ser.context_ids_[k + 1] + 1].previous - 1)

FunctionIsImage(decoded, original) ==
  /\ decoded.set
  /\ decoded.kind = original.kind
  /\ decoded.params = original.parameter_count
  /\ decoded.prototype = Image(original.prototype)
  /\ decoded.context
       = IF original.context = 0 THEN 0
         ELSE 1 + IdOf(ser.context_ids_, original.context - 1)

\* The bindings TakeSnapshot was asked to export, as the global object should
\* hold them after decode.
ExportedBindings ==
  [k \in 1..Len(ser.exports) |-> <<ser.exports[k][1], Image(ser.exports[k][2])>>]

\* The decoded graph is the image of the graph the serializer walked.
Isomorphic ==
  /\ global_dictionary = InitialGlobal \o ExportedBindings
  /\ \A k \in 0..(Len(ser.object_ids_) - 1) : ObjectIsImage(k)
  /\ \A k \in 0..(Len(ser.array_ids_) - 1) : ArrayIsImage(k)
  /\ \A k \in 0..(Len(ser.context_ids_) - 1) : ContextIsImage(k)
  /\ \A k \in 0..(Len(ser.function_ids_) - 1) :
       FunctionIsImage(TableGet(des.functions_, k, UnsetFunction),
                       Heap.functions[ser.function_ids_[k + 1] + 1])
  /\ \A k \in 0..(Len(ser.class_ids_) - 1) :
       FunctionIsImage(TableGet(des.classes_, k, UnsetFunction),
                       Heap.classes[ser.class_ids_[k + 1] + 1])

\* C4: Deserialize of the buffer TakeSnapshot produced for a graph succeeds
\* and yields an isomorphic graph: each export name is bound to the image of
\* its value, every property, element, context slot, prototype and closed-over
\* context leads to the image of its target, primitives and strings are equal.
C4_RoundTrip == SnapshotDecoded => (des.result = "true" /\ Isomorphic)

\* A call on a used serializer returned failure at once: nothing of the
\* instance but its error, its result and the count of calls has changed.
SerializerRejectedReuse ==
  /\ pc' = "written"
  /\ ser'.result = "false"
  /\ ser' = [ser EXCEPT !.error_message_ = ser'.error_message_,
                        !.calls = ser'.calls, !.result = ser'.result]
  /\ buffer' = buffer

\* A call on a used deserializer returned failure at once: no table was read
\* or written, no script was run and the global object is as it was.
DeserializerRejectedReuse ==
  /\ pc' = "done"
  /\ des'.result = "false"
  /\ \A f \in {"strings_", "maps_", "contexts_", "functions_", "classes_",
               "arrays_", "objects_", "script_run", "dictionary", "ref_log"} :
       des'[f] = des[f]
  /\ global_dictionary' = global_dictionary

\* C7: a second TakeSnapshot on one serializer and a second Deserialize on
\* one deserializer each return failure without doing any further work,
\* whatever the first call was given and however it ended.
C7_ReuseRejected ==
  [][/\ (ser.calls >= 1 /\ ser'.calls = ser.calls + 1) => SerializerRejectedReuse
     /\ (des.calls >= 1 /\ des'.calls = des.calls + 1) => DeserializerRejectedReuse]_vars

\* The parent field SerializeContext writes into the record of a context:
\* 0 for none, else the id of the parent plus one.
WrittenParent(context) ==
  IF Heap.contexts[context + 1].previous = 0 THEN 0
  ELSE 1 + IdOf(ser.context_ids_, Heap.contexts[context + 1].previous - 1)

\* C8: in every snapshot the serializer emits, record k of the context table
\* is the context of id k and the parent it names, if any, has an id
\* strictly less than k; and every context the deserializer builds from a
\* record that names a parent has a parent id strictly less than its own,
\* the parent being in the table already.
C8_ContextOrdering ==
  /\ ser.result = "true"
       => \A k \in 0..(Len(ser.contexts_) - 1) :
            /\ IdOf(ser.context_ids_, ser.contexts_[k + 1]) = k
            /\ WrittenParent(ser.contexts_[k + 1]) \in 0..k
  /\ \A k \in 0..(Len(des.contexts_) - 1) :
       (des.contexts_[k + 1].set /\ des.contexts_[k + 1].parent > 0)
         => /\ des.contexts_[k + 1].parent - 1 < k
            /\ des.contexts_[des.contexts_[k + 1].parent].set

\* A snapshot with a context that has a parent was written and decoded.
C8_Witness ==
  /\ mutation = NoMutation
  /\ ser.result = "true"
  /\ \E k \in 0..(Len(ser.contexts_) - 1) : WrittenParent(ser.contexts_[k + 1]) > 0
  /\ pc = "done"
  /\ des.result = "true"
  /\ \E k \in 0..(Len(des.contexts_) - 1) :
       des.contexts_[k + 1].set /\ des.contexts_[k + 1].parent > 0

\* No entity has two ids in an index map of the serializer.
OneId(ids) == \A p, q \in 1..Len(ids) : ids[p] = ids[q] => p = q

C11_FirstErrorSticky ==
  [][/\ has_error(ser) => ser'.error_message_ = ser.error_message_
     /\ has_error(des) => des'.error_message_ = des.error_message_
     /\ (pc' = "written" /\ has_error(ser')) => ser'.result = "false"
     /\ (pc' = "done" /\ has_error(des')) => des'.result = "false"]_vars

\* A second error was reported to a deserializer that had recorded one: the
\* rejected reuse after a decode that failed for another reason.
C11_Witness ==
  /\ des.calls = 2
  /\ pc = "done"
  /\ des.result = "false"
  /\ des.error_message_ \notin {NoError, "Can't reuse WebSnapshotDeserializer"}

\* C12: once the deserializer has recorded an error, the counts of the
\* string, shape, context, function, array, object and class tables are all
\* zero and the read cursor is at the end of the buffer, so that no loop
\* over a table goes on.
C12_ErrorStopsLoops ==
  has_error(des)
    => /\ \A t \in {"strings", "maps", "contexts", "functions", "classes",
                    "arrays", "objects"} : DeclaredCount(des, t) = 0
       /\ des.position_ = End

(***************************************************************************)
(* The layout of a written snapshot, record by record.  A walk is          *)
(* [p, ok, props]: the position of the next token, whether every record so *)
(* far was whole, and the property count of each shape met.                *)
(***************************************************************************)
WireTables ==
  <<"strings", "maps", "contexts", "functions", "arrays", "objects",
    "classes", "exports">>

\* The tokens of the Value at position p, 0 if there is no whole Value.
ValueSize(b, p) ==
  IF p > Len(b) THEN 0
  ELSE IF b[p] \in {FALSE_CONSTANT, TRUE_CONSTANT, NULL_CONSTANT, UNDEFINED_CONSTANT}
  THEN 1
  ELSE IF b[p] \in {INTEGER, DOUBLE, STRING_ID, ARRAY_ID, OBJECT_ID, FUNCTION_ID,
                    CLASS_ID}
  THEN IF p + 1 <= Len(b) THEN 2 ELSE 0
  ELSE IF b[p] = REGEXP THEN IF p + 2 <= Len(b) THEN 3 ELSE 0
  ELSE 0

Broken(w) == [w EXCEPT !.ok = FALSE]

\* The walk moved over n items of lead tokens followed by a Value each.
RECURSIVE SkipValues(_, _, _, _)
SkipValues(b, w, lead, n) ==
  IF ~w.ok \/ n = 0 THEN w
  ELSE IF ValueSize(b, w.p + lead) = 0 THEN Broken(w)
  ELSE SkipValues(b, [w EXCEPT !.p = @ + lead + ValueSize(b, w.p + lead)],
                  lead, n - 1)

\* The walk moved over fixed tokens, if the buffer has them.
SkipTokens(b, w, fixed) ==
  IF w.p + fixed - 1 > Len(b) THEN Broken(w) ELSE [w EXCEPT !.p = @ + fixed]

\* The walk moved over one record of table t as the serializer lays it out.
SkipRecord(b, w, t) ==
  CASE t = "strings" -> SkipTokens(b, w, 1)
    [] t = "maps" ->
         IF w.p + 2 > Len(b) THEN Broken(w)
         ELSE [SkipTokens(b, w, 3 + b[w.p + 2] * (IF b[w.p] = CUSTOM THEN 2 ELSE 1))
                 EXCEPT !.props = Append(@, b[w.p + 2])]
    [] t = "contexts" ->
         IF w.p + 2 > Len(b) THEN Broken(w)
         ELSE SkipValues(b, SkipTokens(b, w, 3), 1, b[w.p + 2])
    [] t \in {"functions", "classes"} -> SkipTokens(b, w, 7)
    [] t = "arrays" ->
         IF w.p > Len(b) THEN Broken(w)
         ELSE SkipValues(b, SkipTokens(b, w, 1), 0, b[w.p])
    [] t = "objects" ->
         IF w.p > Len(b) \/ b[w.p] >= Len(w.props) THEN Broken(w)
         ELSE SkipValues(b, SkipTokens(b, w, 1), 0, w.props[b[w.p] + 1])
    [] OTHER -> SkipValues(b, w, 1, 1)

RECURSIVE SkipRecords(_, _, _, _)
SkipRecords(b, w, t, n) ==
  IF ~w.ok \/ n = 0 THEN w
  ELSE SkipRecords(b, SkipRecord(b, w, t), t, n - 1)

\* The walk moved over the tables from number k on: the count of each, then
\* that many records.
RECURSIVE SkipTables(_, _, _)
SkipTables(b, w, k) ==
  IF ~w.ok \/ k > Len(WireTables) THEN w
  ELSE IF w.p > Len(b) THEN Broken(w)
  ELSE SkipTables(b, SkipRecords(b, [w EXCEPT !.p = @ + 1], WireTables[k], b[w.p]),
                  k + 1)

\* b is the magic number and then the eight tables, each its count and
\* exactly that many records, with nothing left over.
WellFormed(b) ==
  /\ Len(b) >= 1
  /\ b[1] = kMagicNumber
  /\ SkipTables(b, [p |-> 2, ok |-> TRUE, props |-> <<>>], 1).ok
  /\ SkipTables(b, [p |-> 2, ok |-> TRUE, props |-> <<>>], 1).p = Len(b) + 1

\* The table a position of the deserializer belongs to, by number.
TableRank(at) ==
  CASE at \in {"strings", "strings_loop"} -> 1
    [] at \in {"maps", "maps_loop"} -> 2
    [] at \in {"contexts", "contexts_loop"} -> 3
    [] at \in {"functions", "functions_script", "functions_loop", "functions_create"} -> 4
    [] at \in {"arrays", "arrays_loop"} -> 5
    [] at \in {"objects", "objects_loop"} -> 6
    [] at \in {"classes", "classes_loop", "classes_create"} -> 7
    [] at = "deferred" -> 8
    [] at \in {"exports", "exports_loop"} -> 9
    [] at = "script" -> 10
    [] OTHER -> 0

C14_FlagsBijection ==
  pc = "flags_done"
    => IF des.ret[2] = "kInvalid" THEN has_error(des)
       ELSE /\ ~has_error(des)
            /\ FunctionKindToFunctionFlags(des.ret[2]) = buffer[1]

\* The exports a = 1 and b = {x: "hello"}: strings 1 and 2 are the names a
\* and b, string 3 is the key x, string 5 is "hello" and object 0 is
\* {x: "hello"}.
ScenarioEncoded ==
  /\ ser.exports = << <<1, <<"number", 1>>>>, <<2, <<"object", 0>>>> >>
  /\ ser.result = "true"
  /\ mutation = NoMutation

\* What decoding the scenario's buffer yields: a is the integer 1, b is an
\* object whose only property x is the string "hello".
ScenarioDecoded ==
  /\ des.result = "true"
  /\ global_dictionary
       = InitialGlobal \o << <<1, <<"number", 1>>>>, <<2, <<"object", 0>>>> >>
  /\ TableGet(des.objects_, 0, UnsetObject).set
  /\ TableGet(des.objects_, 0, UnsetObject).props = << <<"string", 5>> >>
  /\ Len(TableGet(des.maps_, TableGet(des.objects_, 0, UnsetObject).map, UnsetMap).props) = 1
  /\ TableGet(des.maps_, TableGet(des.objects_, 0, UnsetObject).map, UnsetMap).props[1][1] = 3

ScenarioCounts(string_count) ==
  /\ buffer[2] = string_count
  /\ Len(ser.string_ids_) = string_count
  /\ Len(ser.object_ids_) = 1
  /\ Len(ser.map_ids_) = 1

\* C15: encoding the exports a = 1 and b = {x: "hello"} produces a snapshot
\* with string_count = 2, object_count = 1 and shape_count = 1, and decoding
\* it yields a namespace where a is the integer 1 and b.x is "hello".
C15_ScenarioTwoStrings ==
  ScenarioEncoded
    => /\ ScenarioCounts(2)
       /\ (pc = "done" /\ des.calls = 1) => ScenarioDecoded

\* C15, amended: the snapshot has string_count = 4 (the export names a and b,
\* the key x and the value "hello"), object_count = 1 and shape_count = 1, and
\* decoding it yields a namespace where a is the integer 1 and b.x is "hello".
C15_ScenarioFourStrings ==
  ScenarioEncoded
    => /\ ScenarioCounts(4)
       /\ (pc = "done" /\ des.calls = 1) => ScenarioDecoded

C15_Witness ==
  ScenarioEncoded /\ pc = "done" /\ des.calls = 1 /\ ScenarioDecoded
    /\ ser.string_ids_ = <<1, 2, 3, 5>>

\* The serializer has met a value outside the supported subset.
UnsupportedMet(s) ==
  /\ has_error(s)
  /\ s.error_message_
       \notin {"Can't reuse WebSnapshotSerializer", "Exported object not found"}

\* C16: once discovery or serialization has met an unsupported value, each
\* call of Discovery still drains the queue to empty, every remaining export
\* that evaluates to an object is still discovered and serialized, every
\* pending item is still serialized, TakeSnapshot returns false only at its
\* end, and the caller's buffer is not assigned.
C16_UnsupportedSurfacesAtEnd ==
  [][(UnsupportedMet(ser) /\ pc \in {"discovery", "source", "export", "pending"})
       => /\ ser'.discovery_queue_ = <<>>
          /\ buffer' = buffer
          /\ ser'.error_message_ = ser.error_message_
          /\ (pc = "discovery" /\ ser.exports[ser.i + 1][2][1] # "missing")
               => /\ pc' = IF ser.i + 1 < Len(ser.exports) THEN "discovery"
                           ELSE "source"
                  /\ ser'.result = "none"
          /\ pc = "source" => (pc' = "export" /\ ser'.result = "none")
          /\ pc = "export"
               => /\ ser'.export_count_ = ser.export_count_ + 1
                  /\ pc' = IF ser.export_count_ + 1 < Len(ser.exports)
                           THEN "export" ELSE "pending"
                  /\ ser'.result = "none"
          /\ pc = "pending"
               => IF ser.i < Len(PendingItems(ser))
                  THEN pc' = "pending" /\ ser'.i = ser.i + 1
                         /\ ser'.result = "none"
                  ELSE pc' = "written" /\ ser'.result = "false"]_vars

\* The array holding an unsupported value and object 0 was exported before
\* object 1: object 0, behind the unsupported value in the queue, and object
\* 1, the later export, were both discovered and both exports were written.
C16_Witness ==
  /\ pc = "written"
  /\ ser.error_message_ = "Unsupported object"
  /\ ser.result = "false"
  /\ ser.exports[1][2] = <<"array", 2>>
  /\ ser.object_ids_ = <<0, 1>>
  /\ ser.export_count_ = 2
  /\ ser.i = Len(PendingItems(ser))
  /\ buffer = <<>>

\* The number of tokens of the record of a shape in the layout where only the
\* properties at or after first_custom_index carry a flags word.
ShapeRecordSize(map) ==
  3 + Len(map.keys)
    + (IF FirstCustomIndex(map) = -1 THEN 0
       ELSE Len(map.keys) - FirstCustomIndex(map))

RECURSIVE ShapeTableSize(_)
ShapeTableSize(ids) ==
  IF ids = <<>> THEN 0
  ELSE ShapeRecordSize(Heap.maps[Head(ids) + 1]) + ShapeTableSize(Tail(ids))

\* C17: in a shape record written in CUSTOM mode only the properties at or
\* after first_custom_index carry a flags word, the properties before it are
\* a name string id alone, and the deserializer reads the same layout: the
\* shape table of a snapshot has exactly the tokens of that layout and the
\* deserializer stands behind them when it has read the table.
C17_CustomFlagsFromFirstCustom ==
  ser.result = "true"
    => /\ Len(ser.map_serializer_) = ShapeTableSize(ser.map_ids_)
       /\ (mutation = NoMutation /\ pc = "contexts" /\ des.calls = 1)
            => des.position_
                 = 4 + Len(ser.string_ids_) + ShapeTableSize(ser.map_ids_)

\* The deserializer stands before the count of table t.
AtCountOf(t) == pc = t /\ CanRead(des, 1)

\* What the step reading the count of table t does with a count above the
\* item ceiling, and with a count that is not.
CeilingDecides(t) ==
  /\ (AtCountOf(t) /\ Token(des, 0) > kMaxItemCount)
       => (has_error(des') /\ des'.allocs = des.allocs)
  /\ (AtCountOf(t) /\ Token(des, 0) <= kMaxItemCount)
       => (~has_error(des') /\ <<t, Token(des, 0)>> \in des'.allocs)

\* C18: for each of the eight tables a declared count above kMaxItemCount
\* makes the read of that table fail before its backing array is allocated,
\* and a count that is not above it is accepted whatever the other tables
\* declare.
C18_CeilingPerTable ==
  [][\A t \in {"strings", "maps", "contexts", "functions", "arrays", "objects",
               "classes", "exports"} : CeilingDecides(t)]_vars

\* C19: when the shape table has been read without error every shape id
\* below the declared shape count holds a shape, a record of no properties
\* included, and the cursor stands at the start of the context table (in a
\* snapshot as the serializer wrote it: behind the last token of the shape
\* table).
C19_EveryShapeMaterialized ==
  (pc = "contexts" /\ ~has_error(des))
    => /\ \A k \in 0..(des.map_count_ - 1) : TableGet(des.maps_, k, UnsetMap).set
       /\ (mutation = NoMutation /\ ser.result = "true")
            => des.position_
                 = 4 + Len(ser.string_ids_) + Len(ser.map_serializer_)

\* The pending records in the order perm.
Reordered(d, perm) ==
  [d EXCEPT !.deferred_references_ =
     [k \in 1..Len(perm) |-> d.deferred_references_[perm[k]]]]

Orders(n) ==
  {perm \in [1..n -> 1..n] : \A a, b \in 1..n : perm[a] = perm[b] => a = b}

\* The outcome of the resolver and, when it succeeds, the graph it leaves.
SameResolution(a, b) ==
  /\ has_error(a) = has_error(b)
  /\ ~has_error(a)
       => /\ a.maps_ = b.maps_ /\ a.contexts_ = b.contexts_
          /\ a.functions_ = b.functions_ /\ a.classes_ = b.classes_
          /\ a.arrays_ = b.arrays_ /\ a.objects_ = b.objects_

\* The resolver is the one step between the class table and the export
\* table.
ResolverRunsOnce ==
  /\ pc = "deferred" => pc' = "exports"
  /\ pc' = "exports" => pc = "deferred"
  /\ pc' = "deferred" => pc \in {"classes", "classes_loop", "classes_create"}

OrderIndependent ==
  (pc = "deferred" /\ ~has_error(des))
    => \A perm \in Orders(Len(des.deferred_references_)) :
         SameResolution(ProcessDeferredFrom(Reordered(des, perm), 1),
                        ProcessDeferredFrom(des, 1))

WithPrototype ==
  {f \in ({"function"} \X (0..(Len(des.functions_) - 1)))
           \cup ({"class"} \X (0..(Len(des.classes_) - 1))) :
     TableGet(FunctionTable(des, f), f[2], UnsetFunction).prototype # NoPrototype}

PrototypeShape(f) ==
  TableGet(des.objects_,
           TableGet(FunctionTable(des, f), f[2], UnsetFunction).prototype[2],
           UnsetObject).map

\* C21: a prototype reference of a function or class, resolved at once or by
\* the deferred resolver, to an object whose shape is already the prototype
\* shape of another function fails the decode, and no shape is ever the
\* prototype shape of two functions.
C21_OneFunctionPerShape ==
  /\ ~des.ok => has_error(des)
  /\ \A f \in WithPrototype :
       TableGet(des.maps_, PrototypeShape(f), UnsetMap).ctor = f
  /\ \A f, g \in WithPrototype :
       PrototypeShape(f) = PrototypeShape(g) => f = g

\* A decode has failed on a second function claiming a shape that a function
\* of the snapshot holds.
C21_Witness ==
  /\ pc = "done"
  /\ des.error_message_ = "Can't reuse function prototype"
  /\ ~des.ok
  /\ ~des.empty_map_is_prototype_map
  /\ ~des.bad_cast
  /\ WithPrototype # {}

\* C22: for every kind k the encoder accepts,
\* FunctionFlagsToFunctionKind(FunctionKindToFunctionFlags(k)) = k, and every
\* kind FunctionFlagsToFunctionKind returns is a kind the encoder accepts.
C22_InverseBijections ==
  /\ \A k \in SupportedFunctionKinds :
       FunctionFlagsToFunctionKind(FunctionKindToFunctionFlags(k)) = k
  /\ (pc = "flags_done" /\ ~has_error(des))
       => des.ret[2] \in SupportedFunctionKinds

\* The compacted source text SerializeSource has built.
CompactedText == ser.acc[3]

\* The text of the compacted source from the mapped start of the interval on
\* is the text of the interval.
TextIsKept(interval) ==
  /\ Offset(ser, interval[1]) + (interval[2] - interval[1]) <= Len(CompactedText)
  /\ SubSeq(CompactedText, Offset(ser, interval[1]) + 1,
            Offset(ser, interval[1]) + (interval[2] - interval[1]))
       = NewSubString(interval[1], interval[2])

\* Record k of the function table spans the mapped start and the length of
\* interval k.
SpanIsWritten(k) ==
  /\ ser.function_serializer_[7 * (k - 1) + 3]
       = Offset(ser, IntervalsInOrder(ser.source_intervals_)[k][1])
  /\ ser.function_serializer_[7 * (k - 1) + 4]
       = IntervalsInOrder(ser.source_intervals_)[k][2]
           - IntervalsInOrder(ser.source_intervals_)[k][1]

\* C23: for every set of intervals and every interval of it, the compacted
\* text in [mapped(start), mapped(start) + (end - start)) is the original
\* text in [start, end), and the span written in each function record is
\* that mapped start and that length.
C23_CompactedTextMatches ==
  pc = "spans"
    => /\ \A interval \in ser.source_intervals_ : TextIsKept(interval)
       /\ \A k \in 1..ser.i : SpanIsWritten(k) /\ Len(ser.function_serializer_) = 7 * ser.i

\* Nested intervals, intervals sharing their start and intervals that overlap
\* in part have been compacted and every span has been written.
C23_Witness ==
  /\ pc = "spans"
  /\ ser.source_intervals_ = {<<0, 2>>, <<0, 4>>, <<1, 3>>}
  /\ ser.i = 3
  /\ CompactedText = <<0, 1, 0, 1, 2, 3>>
  /\ Offset(ser, 0) = 2 /\ Offset(ser, 1) = 3

\* C24: the length of the compacted string is the number of source positions
\* covered by the union of the recorded intervals: an interval reaching beyond
\* the covering interval adds only the text not yet covered.
C24_CompactedLength ==
  pc = "spans"
    => Len(CompactedText)
         = Cardinality(UNION {interval[1]..(interval[2] - 1) :
                                interval \in ser.source_intervals_})

\* The entities of list before are the first entities of list after.
IsPrefix(before, after) ==
  Len(before) <= Len(after) /\ SubSeq(after, 1, Len(before)) = before

\* The index map and the list of items to serialize of each kind of entity.
EntityKinds ==
  {<<"context_ids_", "contexts_">>, <<"function_ids_", "functions_">>,
   <<"class_ids_", "classes_">>, <<"array_ids_", "arrays_">>,
   <<"object_ids_", "objects_">>}

\* The export Discovery is called with next is an entity that has its id.
ExportIsInterned ==
  \/ ser.exports[ser.i + 1][2][1] = "object"
       /\ IdOf(ser.object_ids_, ser.exports[ser.i + 1][2][2]) >= 0
  \/ ser.exports[ser.i + 1][2][1] = "array"
       /\ IdOf(ser.array_ids_, ser.exports[ser.i + 1][2][2]) >= 0
  \/ ser.exports[ser.i + 1][2][1] = "function"
       /\ IdOf(ser.function_ids_, ser.exports[ser.i + 1][2][2]) >= 0
  \/ ser.exports[ser.i + 1][2][1] = "class"
       /\ IdOf(ser.class_ids_, ser.exports[ser.i + 1][2][2]) >= 0

\* C25: every call of Discovery, on graphs with reference cycles as well,
\* returns with the queue empty; an entity is listed, and its outgoing
\* references enqueued, on its first dequeue only, so that each list of items
\* is the index map of its kind without a repetition; the ids given before
\* stay, and a call for an entity that has its id lists and enqueues nothing.
C25_DiscoveryTerminates ==
  [][(pc = "discovery" /\ ser.exports[ser.i + 1][2][1] # "missing")
       => /\ ser'.discovery_queue_ = <<>>
          /\ \A kind \in EntityKinds :
               /\ ser'[kind[2]] = ser'[kind[1]]
               /\ OneId(ser'[kind[1]])
               /\ IsPrefix(ser[kind[1]], ser'[kind[1]])
          /\ ExportIsInterned
               => /\ \A kind \in EntityKinds : ser'[kind[1]] = ser[kind[1]]
                  /\ ser'.source_intervals_ = ser.source_intervals_]_vars

\* Discovery has returned from a graph with cycles (array 0 holds itself and
\* object 4, which holds array 0 and whose prototype, object 7, holds object
\* 4), and the second export, array 0, had its id already.
C25_Witness ==
  /\ pc = "source"
  /\ ser.exports = << <<1, <<"object", 4>>>>, <<2, <<"array", 0>>>> >>
  /\ ser.object_ids_ = <<4, 7>>
  /\ ser.array_ids_ = <<0>>
  /\ ser.discovery_queue_ = <<>>

\* The heap map the serializer gave shape id k, and whether one of its
\* properties has attributes other than the default ones.
ShapeSource(k) == Heap.maps[ser.map_ids_[k + 1] + 1]

HasCustomAttributes(map) ==
  \E i \in 1..Len(map.flags) : map.flags[i] # GetDefaultAttributeFlags

\* The number of tokens written before the record of shape id k.
RECURSIVE ShapeRecordStart(_)
ShapeRecordStart(k) ==
  IF k = 0 THEN 0
  ELSE ShapeRecordStart(k - 1) + 3
         + Len(ShapeSource(k - 1).keys)
             * (IF HasCustomAttributes(ShapeSource(k - 1)) THEN 2 ELSE 1)

\* The mode written for shape id k, and in CUSTOM mode the flags written for
\* its property i.
WrittenMode(k) == ser.map_serializer_[ShapeRecordStart(k) + 1]

WrittenFlags(k, i) == ser.map_serializer_[ShapeRecordStart(k) + 3 + 2 * i - 1]

\* C26: a shape is written in DEFAULT mode exactly when none of its
\* properties has non-default attributes; in CUSTOM mode every property from
\* the first non-default one on carries its own flags and every property
\* before it has the default attributes; and the attributes of each property
\* of a decoded shape are those of the source property.
C26_AttributesRoundTrip ==
  /\ ser.result = "true"
       => \A k \in 0..(Len(ser.map_ids_) - 1) :
            /\ WrittenMode(k) = DEFAULT <=> ~HasCustomAttributes(ShapeSource(k))
            /\ WrittenMode(k) \in {DEFAULT, CUSTOM}
            /\ WrittenMode(k) = CUSTOM
                 => \A i \in 1..Len(ShapeSource(k).keys) :
                      /\ WrittenFlags(k, i) = ShapeSource(k).flags[i]
                      /\ i - 1 < FirstCustomIndex(ShapeSource(k))
                           => ShapeSource(k).flags[i] = GetDefaultAttributeFlags
  /\ (SnapshotDecoded /\ des.result = "true")
       => \A k \in 0..(Len(ser.map_ids_) - 1) :
            /\ TableGet(des.maps_, k, UnsetMap).set
            /\ Len(TableGet(des.maps_, k, UnsetMap).props)
                 = Len(ShapeSource(k).keys)
            /\ \A i \in 1..Len(ShapeSource(k).keys) :
                 TableGet(des.maps_, k, UnsetMap).props[i]
                   = <<ShapeSource(k).keys[i],
                       FlagsToAttributes(ShapeSource(k).flags[i])>>

\* A snapshot was decoded that holds a shape whose first property has the
\* default attributes and whose second has not.
C26_Witness ==
  /\ SnapshotDecoded
  /\ des.result = "true"
  /\ \E k \in 0..(Len(ser.map_ids_) - 1) :
       /\ FirstCustomIndex(ShapeSource(k)) = 1
       /\ WrittenMode(k) = CUSTOM
       /\ TableGet(des.maps_, k, UnsetMap).props[1][2] = 0
       /\ TableGet(des.maps_, k, UnsetMap).props[2][2] # 0

\* Every id below count holds an entity in table.
TableComplete(table, count) ==
  \A k \in 0..(count - 1) : k < Len(table) /\ table[k + 1].set

\* Every table of d holds as many entities as its header declared.
EveryTableDecoded(d) ==
  /\ TableComplete(d.strings_, d.string_count_)
  /\ TableComplete(d.maps_, d.map_count_)
  /\ TableComplete(d.contexts_, d.context_count_)
  /\ TableComplete(d.functions_, d.function_count_)
  /\ TableComplete(d.classes_, d.class_count_)
  /\ TableComplete(d.arrays_, d.array_count_)
  /\ TableComplete(d.objects_, d.object_count_)

\* The step that executes the trailing bytes is taken after the export table,
\* without an error and with no reference pending.
ScriptFollowsSnapshot ==
  [][(des'.script_run /\ ~des.script_run)
       => /\ pc = "script"
          /\ ~has_error(des)
          /\ des.deferred_references_ = <<>>
          /\ des.i = des.export_count]_vars

\* A call of Deserialize that ends with an error executes nothing and
\* returns false.
FailedSnapshotRunsNothing ==
  [][(pc' = "done" /\ has_error(des'))
       => /\ des'.script_run = des.script_run
          /\ des'.result = "false"]_vars

\* C27: the trailing bytes are executed only when every table has been
\* decoded, the deferred references are resolved and the exports are
\* installed without error; a call whose snapshot part failed, a wrong magic
\* number included, executes nothing and returns false.
C27_ScriptOnlyAfterSnapshot ==
  /\ ScriptFollowsSnapshot
  /\ FailedSnapshotRunsNothing
  /\ [][(des'.script_run /\ ~des.script_run) => EveryTableDecoded(des)]_vars

\* Whether object is a plain object that object_ids_ holds.
InObjectIds(s, object) ==
  /\ object[1] = "object"
  /\ \E p \in 1..Len(s.object_ids_) : s.object_ids_[p] = object[2]

\* Whether the identity table of the kind of value holds it; a value that is
\* no entity needs none.
Registered(s, value) ==
  CASE value[1] = "function" ->
         \E p \in 1..Len(s.function_ids_) : s.function_ids_[p] = value[2]
    [] value[1] = "class" ->
         \E p \in 1..Len(s.class_ids_) : s.class_ids_[p] = value[2]
    [] value[1] = "array" ->
         \E p \in 1..Len(s.array_ids_) : s.array_ids_[p] = value[2]
    [] value[1] = "object" -> InObjectIds(s, value)
    [] OTHER -> TRUE

RegisteredContext(s, context) ==
  context = 0 \/ \E p \in 1..Len(s.context_ids_) : s.context_ids_[p] = context - 1

RegisteredPrototype(s, prototype) ==
  prototype \in {NoPrototype, ObjectPrototype} \/ InObjectIds(s, prototype)

\* The references written with a pending item are registered.
ItemIsClosed(s, item) ==
  CASE item[1] = "context" ->
         /\ RegisteredContext(s, Heap.contexts[item[2] + 1].previous)
         /\ \A j \in 1..Len(Heap.contexts[item[2] + 1].values) :
              Registered(s, Heap.contexts[item[2] + 1].values[j])
    [] item[1] = "function" ->
         /\ RegisteredContext(s, Heap.functions[item[2] + 1].context)
         /\ RegisteredPrototype(s, Heap.functions[item[2] + 1].prototype)
    [] item[1] = "class" ->
         /\ RegisteredContext(s, Heap.classes[item[2] + 1].context)
         /\ RegisteredPrototype(s, Heap.classes[item[2] + 1].prototype)
    [] item[1] = "array" ->
         \A j \in 1..Len(Heap.arrays[item[2] + 1]) :
           Registered(s, Heap.arrays[item[2] + 1][j])
    [] OTHER ->
         /\ \A j \in 1..Len(Heap.objects[item[2] + 1].properties) :
              Registered(s, Heap.objects[item[2] + 1].properties[j])
         /\ RegisteredPrototype(
              s, Heap.maps[Heap.objects[item[2] + 1].map + 1].prototype)

\* C28: every reference the serializer writes names an entity registered in
\* the identity table of the kind it is written as, a prototype that is an
\* array or a function included, and no id lookup misses.
C28_LookupNeverMisses ==
  /\ ser.lookup_missed = {}
  /\ pc = "pending"
       => /\ \A j \in 1..Len(PendingItems(ser)) :
               ItemIsClosed(ser, PendingItems(ser)[j])
          /\ \A j \in 1..Len(ser.exports) : Registered(ser, ser.exports[j][2])

\* A collection is active on the heap.
GCActive ==
  cppgc.in_atomic_pause \/ cppgc.marker \/ cppgc.sweeping_in_progress

\* What a call can change on the heap.
HeapParts ==
  {"in_atomic_pause", "marker", "sweeping_in_progress", "headers", "live",
   "pages", "lab", "free_list", "explicit_free", "object_start_bitmap",
   "remembered_slots"}

\* C29: while a collection is active (atomic pause, marker or sweeping)
\* FreeUnreferencedObject and Resize leave the object header, the page, the
\* linear allocation buffer, the free list and the explicit-free statistics
\* as they were, and Resize returns false.
C29_NothingChangesInGC ==
  [][(pc = "heap" /\ GCActive)
       => /\ \A part \in HeapParts : cppgc'[part] = cppgc[part]
          /\ cppgc'.call[1] = "Resize" => cppgc'.ret = "false"]_vars

\* During sweeping alone a shrink of the object in front of the linear
\* allocation buffer was refused.
C29_Witness ==
  /\ pc = "heap_done"
  /\ cppgc.sweeping_in_progress /\ ~cppgc.marker /\ ~cppgc.in_atomic_pause
  /\ cppgc.call[1] = "Resize" /\ cppgc.call[2] = "regular"
  /\ NewSize(cppgc.call[3]) < cppgc.headers["regular"].allocated_size
  /\ cppgc.lab.start = ObjectEnd(cppgc)
  /\ cppgc.ret = "false"

\* The allocated size of the regular object.
AllocatedSize(h) == h.headers["regular"].allocated_size

\* C30: outside a collection, a Resize that grows the rounded size of a
\* regular object returns true exactly when the linear allocation buffer
\* starts at the object's end and holds the delta, and returns false without
\* a change of the allocated size and the buffer otherwise; one that shrinks
\* returns true, the allocated size becoming the new size only if the tail
\* is adjacent to the buffer or at least of the smallest size class; a large
\* object is never resized.
C30_ResizeOutcome ==
  [][(pc = "heap" /\ ~GCActive /\ cppgc'.call[1] = "Resize")
       => /\ (cppgc'.call[2] = "regular"
                /\ NewSize(cppgc'.call[3]) > AllocatedSize(cppgc))
               => /\ cppgc'.ret = "true"
                       <=> /\ cppgc.lab.start = ObjectEnd(cppgc)
                           /\ cppgc.lab.size
                                >= NewSize(cppgc'.call[3]) - AllocatedSize(cppgc)
                  /\ cppgc'.ret \in {"true", "false"}
                  /\ cppgc'.ret = "false"
                       => /\ AllocatedSize(cppgc') = AllocatedSize(cppgc)
                          /\ cppgc'.lab = cppgc.lab
          /\ (cppgc'.call[2] = "regular"
                /\ NewSize(cppgc'.call[3]) < AllocatedSize(cppgc))
               => /\ cppgc'.ret = "true"
                  /\ AllocatedSize(cppgc') \in {AllocatedSize(cppgc),
                                                NewSize(cppgc'.call[3])}
                  /\ AllocatedSize(cppgc') = NewSize(cppgc'.call[3])
                       => \/ cppgc.lab.start = ObjectEnd(cppgc)
                          \/ AllocatedSize(cppgc) - NewSize(cppgc'.call[3])
                               >= kSmallestSpaceSize
          /\ cppgc'.call[2] = "large"
               => /\ cppgc'.ret = "false"
                  /\ \A part \in HeapParts : cppgc'[part] = cppgc[part]]_vars

\* A shrink by less than the smallest size class of an object that does not
\* end at the linear allocation buffer returned true and left the size.
C30_Witness ==
  /\ pc = "heap_done"
  /\ ~GCActive
  /\ cppgc.call[1] = "Resize" /\ cppgc.call[2] = "regular"
  /\ cppgc.ret = "true"
  /\ NewSize(cppgc.call[3]) < AllocatedSize(cppgc)
  /\ cppgc.lab.start # ObjectEnd(cppgc)
  /\ cppgc.free_list = {}

====
